---------------------------- MODULE Spec2Model ----------------------------
(***************************************************************************)
(* Head-coupled perspective: the calibration store (utils/calibration.ts), *)
(* the calibration wizard (components/CalibrationWizard.tsx) and the       *)
(* off-axis projector (utils/offAxisCamera.ts).                            *)
(*                                                                         *)
(* JavaScript numbers are modelled as extended rationals: a finite number  *)
(* is an exact fraction n/d, and NaN, +Infinity and -Infinity are values   *)
(* of their own with the IEEE-754 rules for arithmetic and comparison.     *)
(* Rounding is not modelled, and -0 is not told apart from +0.  JSON null  *)
(* and undefined are values too, because JSON.stringify produces them.     *)
(* Objects live in a heap, so that two references to one object are told   *)
(* apart from two equal objects.                                           *)
(***************************************************************************)
EXTENDS Integers, FiniteSets, Sequences, TLC

(***************************************************************************)
(* Numbers                                                                 *)
(***************************************************************************)
Abs(i) == IF i < 0 THEN -i ELSE i

RECURSIVE GCD(_, _)
GCD(a, b) == IF b = 0 THEN a ELSE GCD(b, a % b)

\* The finite number n/d (d # 0) in lowest terms with a positive denominator.
Num(n, d) ==
  LET g == GCD(Abs(n), Abs(d))
      s == IF d < 0 THEN -1 ELSE 1
  IN  [k |-> "num", n |-> (s * n) \div g, d |-> Abs(d) \div g]

Int2Num(i) == [k |-> "num", n |-> i, d |-> 1]
NaN == [k |-> "nan", n |-> 0, d |-> 0]
PosInf == [k |-> "inf", n |-> 1, d |-> 0]
NegInf == [k |-> "inf", n |-> -1, d |-> 0]
JsNull == [k |-> "null", n |-> 0, d |-> 0]
JsUndefined == [k |-> "undef", n |-> 0, d |-> 0]
Zero == Int2Num(0)

\* ToNumber of the language: null is 0, undefined is NaN.
ToNumber(v) ==
  CASE v.k = "null" -> Zero
    [] v.k = "undef" -> NaN
    [] OTHER -> v

IsFinite(v) == v.k = "num"
IsNaN(v) == ToNumber(v).k = "nan"
\* -1, 0 or 1 for a number that is not NaN.
Sign(v) == IF v.n < 0 THEN -1 ELSE IF v.n > 0 THEN 1 ELSE 0
Inf(s) == IF s < 0 THEN NegInf ELSE PosInf

Neg(a0) ==
  LET a == ToNumber(a0)
  IN  CASE a.k = "nan" -> NaN
        [] a.k = "inf" -> Inf(-a.n)
        [] OTHER -> Num(-a.n, a.d)

Add(a0, b0) ==
  LET a == ToNumber(a0)
      b == ToNumber(b0)
  IN  CASE a.k = "nan" \/ b.k = "nan" -> NaN
        [] a.k = "inf" /\ b.k = "inf" -> IF a.n = b.n THEN a ELSE NaN
        [] a.k = "inf" -> a
        [] b.k = "inf" -> b
        [] OTHER -> Num(a.n * b.d + b.n * a.d, a.d * b.d)

Sub(a, b) == Add(a, Neg(b))

Mul(a0, b0) ==
  LET a == ToNumber(a0)
      b == ToNumber(b0)
  IN  CASE a.k = "nan" \/ b.k = "nan" -> NaN
        [] a.k = "inf" \/ b.k = "inf" ->
             IF Sign(a) * Sign(b) = 0 THEN NaN ELSE Inf(Sign(a) * Sign(b))
        [] OTHER -> Num(a.n * b.n, a.d * b.d)

Div(a0, b0) ==
  LET a == ToNumber(a0)
      b == ToNumber(b0)
  IN  CASE a.k = "nan" \/ b.k = "nan" -> NaN
        [] a.k = "inf" /\ b.k = "inf" -> NaN
        [] a.k = "inf" -> Inf(a.n * (IF Sign(b) < 0 THEN -1 ELSE 1))
        [] b.k = "inf" -> Zero
        [] b.n = 0 -> IF a.n = 0 THEN NaN ELSE Inf(Sign(a))
        [] OTHER -> Num(a.n * b.d, a.d * b.n)

\* a < b and a <= b of the language: false as soon as one side is NaN.
Lt(a0, b0) ==
  LET a == ToNumber(a0)
      b == ToNumber(b0)
  IN  CASE a.k = "nan" \/ b.k = "nan" -> FALSE
        [] a.k = "inf" /\ b.k = "inf" -> a.n < b.n
        [] a.k = "inf" -> a.n < 0
        [] b.k = "inf" -> b.n > 0
        [] OTHER -> a.n * b.d < b.n * a.d

Le(a0, b0) ==
  LET a == ToNumber(a0)
      b == ToNumber(b0)
  IN  CASE a.k = "nan" \/ b.k = "nan" -> FALSE
        [] OTHER -> ~Lt(b, a)

MathMax(a0, b0) ==
  LET a == ToNumber(a0)
      b == ToNumber(b0)
  IN  IF a.k = "nan" \/ b.k = "nan" THEN NaN ELSE IF Lt(a, b) THEN b ELSE a

MathMin(a0, b0) ==
  LET a == ToNumber(a0)
      b == ToNumber(b0)
  IN  IF a.k = "nan" \/ b.k = "nan" THEN NaN ELSE IF Lt(b, a) THEN b ELSE a

\* A value is falsy when it is 0, NaN, null or undefined (the operand of ||).
Falsy(v) == v.k \in {"nan", "null", "undef"} \/ (v.k = "num" /\ v.n = 0)


(***************************************************************************)
(* Bounds of the model                                                     *)
(***************************************************************************)
\* Heap addresses 0..MaxAddr.  Address 0 holds DEFAULT_CALIBRATION; the
\* others hold the objects the store, its callers and the projector refer to.
MaxAddr == 4
\* The head-pose filter takes in at most MaxSamples samples (nulls apart).
MaxSamples == 3
\* Up to MaxBetween poses are processed between two frames with one pose.
MaxBetween == 2
\* Up to MaxInitCalls calls of initFaceLandmarker are under way at a time.
MaxInitCalls == 2
\* requestAnimationFrame hands out the ids 1..MaxFrameIds.
MaxFrameIds == 3
\* FaceMeshView creates at most MaxTrackers FaceMesh/Camera pairs.
MaxTrackers == 3
\* The video's currentTime goes from 0 to MaxVideoTime.
MaxVideoTime == 2

(***************************************************************************)
(* State                                                                   *)
(***************************************************************************)
VARIABLES
  heap,                    \* address -> CalibrationData object
  dataRef,                 \* CalibrationManager.data
  storage,                 \* localStorage['parallax_calibration_v1']
  heldRef,                 \* a record a caller got from getCalibration()
  wizard,                  \* CalibrationWizard's component state
  calibrationRef,          \* OffAxisCamera.calibration
  screenWidthWorld,        \* OffAxisCamera.screenWidthWorld
  screenHeightWorld,       \* OffAxisCamera.screenHeightWorld
  camera,                  \* the THREE.PerspectiveCamera the projector drives
  call,                    \* the latest call: operation, argument, outcome
  stabilizedPose,          \* the head-pose filter's last stabilized pose
  samplesFed,              \* how many samples the filter has taken in
  returned,                \* what the latest call returned or handed on
  landmarker,              \* useFaceLandmarker: state, refs, frames, tasks
  faceMesh,                \* useFaceMesh: state and refs
  view                     \* FaceMeshView: state, refs, trackers, timers

vars == <<heap, dataRef, storage, heldRef, wizard, calibrationRef,
          screenWidthWorld, screenHeightWorld, camera, call,
          stabilizedPose, samplesFed, returned, landmarker, faceMesh, view>>
refVars == <<heap, dataRef, heldRef, calibrationRef>>
projectorVars == <<screenWidthWorld, screenHeightWorld, camera>>
pipelineVars == <<stabilizedPose, samplesFed, returned>>
filterVars == <<stabilizedPose, samplesFed>>
trackerVars == <<landmarker, faceMesh, view>>
calibrationVars == <<refVars, storage, wizard, projectorVars, pipelineVars>>

(***************************************************************************)
(* utils/calibration.ts: CalibrationData and the heap of its objects       *)
(***************************************************************************)
NumberKeys ==
  {"screenWidthCm", "screenHeightCm", "viewingDistanceCm", "pixelWidth", "pixelHeight"}
Keys == NumberKeys \cup {"isCalibrated"}

DEFAULT_CALIBRATION ==
  [screenWidthCm |-> Int2Num(34), screenHeightCm |-> Int2Num(19),
   viewingDistanceCm |-> Int2Num(60), pixelWidth |-> Int2Num(1920),
   pixelHeight |-> Int2Num(1080), isCalibrated |-> FALSE]

Addr == 0 .. MaxAddr
DefaultAddr == 0
NullRef == -1
\* What an address no reference leads to holds.
FreeCell == [k \in Keys |-> IF k = "isCalibrated" THEN FALSE ELSE JsUndefined]

Roots(d, h, c) == {DefaultAddr, d, h, c}
\* The address of a newly created object: one that nothing refers to.
NewAddr ==
  LET free == Addr \ Roots(dataRef, heldRef, calibrationRef)
  IN  CHOOSE a \in free : \A b \in free : a <= b
\* The references and the heap after a step.  Objects nothing refers to any
\* more are collected, and the others are moved to the address of their
\* first referrer (1 the store, 2 a caller, 3 the projector): an address
\* says nothing but which object it is, and this keeps one state per heap.
Install(h, d, hl, c) ==
  LET ad == IF d = DefaultAddr THEN DefaultAddr ELSE 1
      ah == CASE hl = NullRef -> NullRef
               [] hl = DefaultAddr -> DefaultAddr
               [] hl = d -> ad
               [] OTHER -> 2
      ac == CASE c = DefaultAddr -> DefaultAddr
               [] c = d -> ad
               [] c = hl -> ah
               [] OTHER -> 3
  IN  /\ dataRef' = ad
      /\ heldRef' = ah
      /\ calibrationRef' = ac
      /\ heap' = [a \in Addr |->
                    CASE a = DefaultAddr -> h[DefaultAddr]
                      [] a = ad -> h[d]
                      [] a = ah -> h[hl]
                      [] a = ac -> h[c]
                      [] OTHER -> FreeCell]

\* { ...a, ...b }: b's own properties over a's.
Spread(a, b) ==
  [k \in (DOMAIN a) \cup (DOMAIN b) |-> IF k \in DOMAIN b THEN b[k] ELSE a[k]]
\* The calibration fields of an object (other properties are not read).
Fields(o) == [k \in Keys |-> o[k]]
EmptyObject == [k \in {} |-> Zero]

(***************************************************************************)
(* localStorage and JSON                                                   *)
(***************************************************************************)
\* The stored item: none, or a text.  A text is the JSON of an object
\* ("json", with the object's properties in doc), the JSON of something that
\* is no object, such as 42 or null ("scalar"), or no JSON at all ("garbage").
NoItem == [kind |-> "none", doc |-> EmptyObject]
Garbage == [kind |-> "garbage", doc |-> EmptyObject]
Scalar == [kind |-> "scalar", doc |-> EmptyObject]

\* JSON.stringify of a number: NaN and the infinities become null.
JsonValue(k, v) ==
  IF k = "isCalibrated" THEN v ELSE IF v.k \in {"nan", "inf"} THEN JsNull ELSE v
IsUndefined(k, v) == IF k = "isCalibrated" THEN FALSE ELSE v.k = "undef"

\* JSON.stringify(object): properties that are undefined are left out.
JSONstringify(o) ==
  [kind |-> "json",
   doc |-> [k \in {j \in DOMAIN o : ~IsUndefined(j, o[j])} |-> JsonValue(k, o[k])]]

\* JSON.parse(text) throws on a text that is no JSON.
JSONparseThrows(text) == text.kind = "garbage"
JSONparse(text) == text.doc

\* Variant: the defaults spread over the stored item, so that nothing stored
\* survives a load.
loadDefaultsLast(item, getItemThrows) ==
  IF getItemThrows \/ item.kind = "none" \/ JSONparseThrows(item)
  THEN Spread(DEFAULT_CALIBRATION, EmptyObject)
  ELSE Fields(Spread(JSONparse(item), DEFAULT_CALIBRATION))

\* loadCalibration(): the stored item spread over the defaults, or the
\* defaults when there is no item or reading or parsing it throws.
loadCalibration(item, getItemThrows) ==
  IF getItemThrows \/ item.kind = "none" \/ JSONparseThrows(item)
  THEN Spread(DEFAULT_CALIBRATION, EmptyObject)
  ELSE Fields(Spread(DEFAULT_CALIBRATION, JSONparse(item)))

\* Variant: { ...this.data, isCalibrated: true, ...data }, where the
\* partial's own isCalibrated wins.
MergedPartialLast(data, partial) ==
  Fields(Spread(Spread(data, [isCalibrated |-> TRUE]), partial))

\* { ...this.data, ...data, isCalibrated: true }
MergedData(data, partial) ==
  Fields(Spread(Spread(data, partial), [isCalibrated |-> TRUE]))

\* Variant: setItem without the try/catch, whose exception reaches the caller.
UnguardedSetItem(item, text, throws) ==
  [item |-> IF throws THEN item ELSE text, raised |-> throws]

\* try { localStorage.setItem(key, text) } catch { console.error }: what the
\* item is afterwards and whether the exception reaches the caller.
GuardedSetItem(item, text, throws) ==
  [item |-> IF throws THEN item ELSE text, raised |-> FALSE]

\* Variant: a reset that leaves the stored item where it is.
KeptItem(item, throws) ==
  [item |-> item, raised |-> FALSE]

\* try { localStorage.removeItem(key) } catch { console.error }
GuardedRemoveItem(item, throws) ==
  [item |-> IF throws THEN item ELSE NoItem, raised |-> FALSE]

NoArg == EmptyObject
\* null, where a HeadPose is expected.
NoPose == [x |-> JsNull, y |-> JsNull, z |-> JsNull]
Called(op, arg, raised, ioThrew) ==
  [op |-> op, arg |-> arg, raised |-> raised, ioThrew |-> ioThrew]

\* The store's object is replaced by a new one holding `value`.
NewData(value) ==
  LET a == NewAddr
  IN  Install([heap EXCEPT ![a] = value], a, heldRef, calibrationRef)

\* new CalibrationManager(): a page load constructs the store from storage.
Construct(getItemThrows) ==
  /\ NewData(loadCalibration(storage, getItemThrows))
  /\ call' = Called("constructor", NoArg, FALSE, getItemThrows)
  /\ UNCHANGED <<trackerVars, storage, wizard, projectorVars, pipelineVars>>

SaveInto(op, partial, throws) ==
  LET merged == MergedData(heap[dataRef], partial)
      out == GuardedSetItem(storage, JSONstringify(merged), throws)
  IN  /\ NewData(merged)
      /\ storage' = out.item
      /\ call' = Called(op, partial, out.raised, throws)

saveCalibration(partial, throws) ==
  /\ SaveInto("saveCalibration", partial, throws)
  /\ UNCHANGED <<trackerVars, wizard, projectorVars, pipelineVars>>

resetCalibration(throws) ==
  LET out == GuardedRemoveItem(storage, throws)
  IN  /\ NewData(Spread(DEFAULT_CALIBRATION, EmptyObject))
      /\ storage' = out.item
      /\ call' = Called("resetCalibration", NoArg, out.raised, throws)
      /\ UNCHANGED <<trackerVars, wizard, projectorVars, pipelineVars>>

updateScreenDimensions(widthCm, heightCm, throws) ==
  /\ SaveInto("updateScreenDimensions",
              [screenWidthCm |-> widthCm, screenHeightCm |-> heightCm], throws)
  /\ UNCHANGED <<trackerVars, wizard, projectorVars, pipelineVars>>

updateViewingDistance(distanceCm, throws) ==
  /\ SaveInto("updateViewingDistance",
              [viewingDistanceCm |-> distanceCm], throws)
  /\ UNCHANGED <<trackerVars, wizard, projectorVars, pipelineVars>>

updatePixelDimensions(width, height, throws) ==
  /\ SaveInto("updatePixelDimensions",
              [pixelWidth |-> width, pixelHeight |-> height], throws)
  /\ UNCHANGED <<trackerVars, wizard, projectorVars, pipelineVars>>

\* Variant: return this.data, the store's own object.
ReferenceToData ==
  [ref |-> dataRef, heap |-> heap]

\* getCalibration(): { ...this.data }, a new object; the caller keeps it.
CopyOfData ==
  LET a == NewAddr
  IN  [ref |-> a, heap |-> [heap EXCEPT ![a] = heap[dataRef]]]

getCalibration ==
  LET r == CopyOfData
  IN  /\ Install(r.heap, dataRef, r.ref, calibrationRef)
      /\ call' = Called("getCalibration", NoArg, FALSE, FALSE)
      /\ UNCHANGED <<trackerVars, storage, wizard, projectorVars, pipelineVars>>

\* A caller assigns to a property of the record it holds.
MutateHeld(k, v) ==
  /\ heldRef # NullRef
  /\ heap' = [heap EXCEPT ![heldRef][k] = v]
  /\ call' = Called("mutate", [key |-> k], FALSE, FALSE)
  /\ UNCHANGED <<trackerVars, dataRef, storage, heldRef, calibrationRef, wizard, projectorVars, pipelineVars>>

isCalibrated == heap[dataRef].isCalibrated

getCmPerPixel ==
  [x |-> Div(heap[dataRef].screenWidthCm, heap[dataRef].pixelWidth),
   y |-> Div(heap[dataRef].screenHeightCm, heap[dataRef].pixelHeight)]

(***************************************************************************)
(* components/CalibrationWizard.tsx                                        *)
(***************************************************************************)
\* useState(34), useState(19), useState(60), useState(false), 'intro'
WizardClosed ==
  [open |-> FALSE, step |-> "intro", screenWidthCm |-> Int2Num(34),
   screenHeightCm |-> Int2Num(19), viewingDistanceCm |-> Int2Num(60),
   useInches |-> FALSE]

\* parseFloat of the text of a number input: NaN for an empty field.
parseFloat(text) ==
  CASE text = "" -> NaN
    [] text = "0" -> Zero
    [] text = "40" -> Int2Num(40)
    [] text = "-5" -> Int2Num(-5)

inchesToCm(inches) == Mul(inches, Num(254, 100))

\* parseFloat(e.target.value) || 0, then converted when inches are shown.
EnteredCm(text, useInches) ==
  LET parsed == parseFloat(text)
      value == IF Falsy(parsed) THEN Zero ELSE parsed
  IN  IF useInches THEN inchesToCm(value) ELSE value

\* Mounting runs the effect, which fills the fields from the store.
WizardMount ==
  /\ ~wizard.open
  /\ wizard' = [WizardClosed EXCEPT
                  !.open = TRUE,
                  !.screenWidthCm = heap[dataRef].screenWidthCm,
                  !.screenHeightCm = heap[dataRef].screenHeightCm,
                  !.viewingDistanceCm = heap[dataRef].viewingDistanceCm]
  /\ call' = Called("wizardMount", NoArg, FALSE, FALSE)
  /\ UNCHANGED <<trackerVars, refVars, storage, projectorVars, pipelineVars>>

WizardSetStep(from, to) ==
  /\ wizard.open /\ wizard.step = from
  /\ wizard' = [wizard EXCEPT !.step = to]
  /\ call' = Called("setStep", NoArg, FALSE, FALSE)
  /\ UNCHANGED <<trackerVars, refVars, storage, projectorVars, pipelineVars>>

WizardSetUseInches(b) ==
  /\ wizard.open /\ wizard.step \in {"screen-size", "viewing-distance"}
  /\ wizard' = [wizard EXCEPT !.useInches = b]
  /\ call' = Called("setUseInches", NoArg, FALSE, FALSE)
  /\ UNCHANGED <<trackerVars, refVars, storage, projectorVars, pipelineVars>>

WizardChangeWidth(text) ==
  /\ wizard.open /\ wizard.step = "screen-size"
  /\ wizard' = [wizard EXCEPT !.screenWidthCm = EnteredCm(text, wizard.useInches)]
  /\ call' = Called("onChangeWidth", NoArg, FALSE, FALSE)
  /\ UNCHANGED <<trackerVars, refVars, storage, projectorVars, pipelineVars>>

WizardChangeHeight(text) ==
  /\ wizard.open /\ wizard.step = "screen-size"
  /\ wizard' = [wizard EXCEPT !.screenHeightCm = EnteredCm(text, wizard.useInches)]
  /\ call' = Called("onChangeHeight", NoArg, FALSE, FALSE)
  /\ UNCHANGED <<trackerVars, refVars, storage, projectorVars, pipelineVars>>

WizardChangeDistance(text) ==
  /\ wizard.open /\ wizard.step = "viewing-distance"
  /\ wizard' = [wizard EXCEPT !.viewingDistanceCm = EnteredCm(text, wizard.useInches)]
  /\ call' = Called("onChangeDistance", NoArg, FALSE, FALSE)
  /\ UNCHANGED <<trackerVars, refVars, storage, projectorVars, pipelineVars>>

\* The Complete button: handleComplete(), which saves the fields and hands
\* getCalibration() to onComplete, and then onClose().
handleComplete(throws) ==
  LET partial == [screenWidthCm |-> wizard.screenWidthCm,
                  screenHeightCm |-> wizard.screenHeightCm,
                  viewingDistanceCm |-> wizard.viewingDistanceCm,
                  isCalibrated |-> TRUE]
      merged == MergedData(heap[dataRef], partial)
      out == GuardedSetItem(storage, JSONstringify(merged), throws)
      free == Addr \ Roots(NullRef, NullRef, calibrationRef)
      a == CHOOSE x \in free : \A y \in free : x <= y
      b == CHOOSE x \in free \ {a} : \A y \in free \ {a} : x <= y
  IN  /\ wizard.open /\ wizard.step = "test"
      /\ Install([heap EXCEPT ![a] = merged, ![b] = merged], a, b, calibrationRef)
      /\ storage' = out.item
      /\ wizard' = WizardClosed
      /\ call' = Called("handleComplete", partial, out.raised, throws)
      /\ UNCHANGED <<trackerVars, projectorVars, pipelineVars>>

\* The Skip button: saveCalibration({ isCalibrated: true }), then onSkip().
handleSkip(throws) ==
  /\ wizard.open /\ wizard.step = "intro"
  /\ SaveInto("handleSkip", [isCalibrated |-> TRUE], throws)
  /\ UNCHANGED <<trackerVars, wizard, projectorVars, pipelineVars>>

\* The X button: onClose().
WizardClose ==
  /\ wizard.open
  /\ wizard' = WizardClosed
  /\ call' = Called("onClose", NoArg, FALSE, FALSE)
  /\ UNCHANGED <<trackerVars, refVars, storage, projectorVars, pipelineVars>>

(***************************************************************************)
(* utils/offAxisCamera.ts                                                  *)
(***************************************************************************)
worldScale == Num(1, 100)
movementScale == Num(3, 2)
nearPlane == Num(5, 100)
farPlane == Int2Num(1000)
screenZ == Zero
Half == Num(1, 2)
Vec(x, y, z) == [x |-> x, y |-> y, z |-> z]

\* Matrix4.makePerspective(left, right, top, bottom, near, far): the matrix
\* is a function of the six bounds, which stand for it here.
makePerspective(left, right, top, bottom, near, far) ==
  [fromFrustum |-> TRUE, left |-> left, right |-> right, top |-> top,
   bottom |-> bottom, near |-> near, far |-> far]
\* The matrix of a PerspectiveCamera the projector has not written yet.
CameraOwnProjection ==
  [fromFrustum |-> FALSE, left |-> Zero, right |-> Zero, top |-> Zero,
   bottom |-> Zero, near |-> Zero, far |-> Zero]

\* A new THREE.PerspectiveCamera: at the origin, looking down the -z axis.
NewCamera ==
  [position |-> Vec(Zero, Zero, Zero), lookAt |-> Vec(Zero, Zero, Int2Num(-1)),
   projectionMatrix |-> CameraOwnProjection,
   projectionMatrixInverse |-> CameraOwnProjection]

\* Variant: updateCalibration deriving the world width only, the world
\* height being that of the calibration before.
updateCalibrationWidthOnly ==
  /\ heldRef # NullRef
  /\ Install(heap, dataRef, heldRef, heldRef)
  /\ screenWidthWorld' = Mul(heap[heldRef].screenWidthCm, worldScale)
  /\ call' = Called("updateCalibration", NoArg, FALSE, FALSE)
  /\ UNCHANGED <<trackerVars, storage, wizard, camera, screenHeightWorld, pipelineVars>>

\* constructor and updateCalibration: the reference is kept and the world
\* size of the screen is derived from the record once.
updateCalibration ==
  /\ heldRef # NullRef
  /\ Install(heap, dataRef, heldRef, heldRef)
  /\ screenWidthWorld' = Mul(heap[heldRef].screenWidthCm, worldScale)
  /\ screenHeightWorld' = Mul(heap[heldRef].screenHeightCm, worldScale)
  /\ call' = Called("updateCalibration", NoArg, FALSE, FALSE)
  /\ UNCHANGED <<trackerVars, storage, wizard, camera, pipelineVars>>

\* Variant: the lateral offset taken from 0.4, not from the centre 0.5.
headPoseToWorldPositionOffCentre(headPose) ==
  Vec(Mul(Mul(Neg(Sub(headPose.x, Num(2, 5))), screenWidthWorld), movementScale),
      Mul(Mul(Neg(Sub(headPose.y, Num(2, 5))), screenHeightWorld), movementScale),
      Mul(Mul(heap[calibrationRef].viewingDistanceCm, worldScale),
          Div(Int2Num(1), headPose.z)))

\* Variant: the depth proxy multiplied in, not inverted.
headPoseToWorldPositionScaled(headPose) ==
  Vec(Mul(Mul(Neg(Sub(headPose.x, Half)), screenWidthWorld), movementScale),
      Mul(Mul(Neg(Sub(headPose.y, Half)), screenHeightWorld), movementScale),
      Mul(Mul(heap[calibrationRef].viewingDistanceCm, worldScale), headPose.z))

\* Variant: the eye on the same side as the face in the image.
headPoseToWorldPositionUnmirrored(headPose) ==
  Vec(Mul(Mul(Sub(headPose.x, Half), screenWidthWorld), movementScale),
      Mul(Mul(Sub(headPose.y, Half), screenHeightWorld), movementScale),
      Mul(Mul(heap[calibrationRef].viewingDistanceCm, worldScale),
          Div(Int2Num(1), headPose.z)))

headPoseToWorldPosition(headPose) ==
  LET headXWorld ==
        Mul(Mul(Neg(Sub(headPose.x, Half)), screenWidthWorld), movementScale)
      headYWorld ==
        Mul(Mul(Neg(Sub(headPose.y, Half)), screenHeightWorld), movementScale)
      baseDistance == Mul(heap[calibrationRef].viewingDistanceCm, worldScale)
      depthScale == Div(Int2Num(1), headPose.z)
  IN  Vec(headXWorld, headYWorld, Mul(baseDistance, depthScale))

\* Variant: if (viewerToScreenDistance < 0) return, which lets an eye in the
\* screen plane through.
BehindScreen(headPosition) == Lt(Sub(headPosition.z, screenZ), Zero)

\* if (viewerToScreenDistance <= 0) return;
DegenerateEye(headPosition) == Le(Sub(headPosition.z, screenZ), Zero)

\* Variant: the symmetric frustum of an eye on the axis, whatever the
\* eye's lateral position.
ProjectedCameraOnAxis(cam, headPosition) ==
  LET n_over_d == Div(nearPlane, Sub(headPosition.z, screenZ))
      right == Mul(Div(screenWidthWorld, Int2Num(2)), n_over_d)
      top == Mul(Div(screenHeightWorld, Int2Num(2)), n_over_d)
      m == makePerspective(Neg(right), right, top, Neg(top), nearPlane, farPlane)
  IN  IF DegenerateEye(headPosition)
      THEN cam
      ELSE [cam EXCEPT !.projectionMatrix = m, !.projectionMatrixInverse = m]

\* The camera after updateProjectionMatrix(headPosition).
ProjectedCamera(cam, headPosition) ==
  LET n_over_d == Div(nearPlane, Sub(headPosition.z, screenZ))
      left == Mul(Sub(Neg(Div(screenWidthWorld, Int2Num(2))), headPosition.x), n_over_d)
      right == Mul(Sub(Div(screenWidthWorld, Int2Num(2)), headPosition.x), n_over_d)
      bottom == Mul(Sub(Neg(Div(screenHeightWorld, Int2Num(2))), headPosition.y), n_over_d)
      top == Mul(Sub(Div(screenHeightWorld, Int2Num(2)), headPosition.y), n_over_d)
      m == makePerspective(left, right, top, bottom, nearPlane, farPlane)
  IN  IF DegenerateEye(headPosition)
      THEN cam
      ELSE [cam EXCEPT !.projectionMatrix = m, !.projectionMatrixInverse = m]

\* Variant: the camera at the eye, aimed at the origin of the screen plane.
PlacedCameraAtOrigin(cam, headPosition) ==
  [cam EXCEPT !.position = headPosition,
              !.lookAt = Vec(Zero, Zero, Zero)]

\* Variant: the camera moved by the head position from where it was.
PlacedCameraRelative(cam, headPosition) ==
  [cam EXCEPT !.position = Vec(Add(cam.position.x, headPosition.x),
                               Add(cam.position.y, headPosition.y),
                               Add(cam.position.z, headPosition.z)),
              !.lookAt = Vec(headPosition.x, headPosition.y, Zero)]

\* The camera after setCameraPosition(headPosition).
PlacedCamera(cam, headPosition) ==
  [cam EXCEPT !.position = headPosition,
              !.lookAt = Vec(headPosition.x, headPosition.y, Zero)]

updateProjectionMatrix(headPosition) ==
  /\ camera' = ProjectedCamera(camera, headPosition)
  /\ call' = Called("updateProjectionMatrix", headPosition, FALSE, FALSE)
  /\ UNCHANGED <<trackerVars, refVars, storage, wizard, screenWidthWorld, screenHeightWorld, pipelineVars>>

setCameraPosition(headPosition) ==
  /\ camera' = PlacedCamera(camera, headPosition)
  /\ call' = Called("setCameraPosition", headPosition, FALSE, FALSE)
  /\ UNCHANGED <<trackerVars, refVars, storage, wizard, screenWidthWorld, screenHeightWorld, pipelineVars>>

\* updateFromHeadPose: the world position, then setCameraPosition, then
\* updateProjectionMatrix.
FrameCamera(cam, headPose) ==
  LET worldPos == headPoseToWorldPosition(headPose)
  IN  ProjectedCamera(PlacedCamera(cam, worldPos), worldPos)

updateFromHeadPose(headPose) ==
  /\ camera' = FrameCamera(camera, headPose)
  /\ call' = Called("updateFromHeadPose", headPose, FALSE, FALSE)
  /\ UNCHANGED <<trackerVars, refVars, storage, wizard, screenWidthWorld, screenHeightWorld, pipelineVars>>

getScreenDimensions == [width |-> screenWidthWorld, height |-> screenHeightWorld]

(***************************************************************************)
(* hooks/useFaceLandmarker.ts                                              *)
(*                                                                         *)
(* state is what setState has made of the hook's state; rendered is the    *)
(* state of the latest render, which is what the callbacks of that render  *)
(* read as state.isReady and state.isRunning.  A pending animation frame   *)
(* holds the processVideoFrame of the render that requested it, hence the  *)
(* isRunning that callback reads.  videoElement and canvasElement are      *)
(* present and the canvas gives a 2d context.                              *)
(***************************************************************************)
NewFaceLandmarkerHook ==
  [ isReady |-> FALSE, isRunning |-> FALSE, error |-> FALSE,
    rendered |-> [isReady |-> FALSE, isRunning |-> FALSE],
    faceLandmarkerRef |-> FALSE,      \* a detector is stored
    initializingRef |-> FALSE,
    startingRef |-> FALSE,
    animationFrameIdRef |-> 0,        \* 0 for null
    lastVideoTimeRef |-> -1,
    currentTime |-> 0,                \* videoElement.currentTime
    frames |-> {},                    \* requested animation frames
    lastId |-> 0,                     \* the latest id requestAnimationFrame gave
    suspended |-> 0,                  \* processVideoFrame calls at their await
    initTasks |-> [i \in 1..MaxInitCalls |-> "idle"],
    mounted |-> TRUE,
    stopped |-> FALSE ]               \* stopped, and not started since

\* Variant: initFaceLandmarker without the check of initializingRef.
InitializationUnchecked(l) == FALSE

\* if (!canvasElement || initializingRef.current) return;
InitializationInProgress(l) == l.initializingRef

\* initFaceLandmarker() up to its first await.
initFaceLandmarker(i) ==
  /\ landmarker.initTasks[i] = "idle"
  /\ IF InitializationInProgress(landmarker)
     THEN /\ landmarker' = landmarker
          /\ call' = Called("initFaceLandmarker", [task |-> i, began |-> FALSE], FALSE, FALSE)
     ELSE /\ landmarker' = [landmarker EXCEPT !.initializingRef = TRUE,
                                              !.initTasks[i] = "checkCdnAvailability"]
          /\ call' = Called("initFaceLandmarker", [task |-> i, began |-> TRUE], FALSE, FALSE)
  /\ UNCHANGED <<calibrationVars, faceMesh, view>>

\* The awaits of initFaceLandmarker in their order.
NextAwait(pc) ==
  CASE pc = "checkCdnAvailability" -> "initVisionModule"
    [] pc = "initVisionModule" -> "forVisionTasks"
    [] pc = "forVisionTasks" -> "createFromOptions"
    [] OTHER -> "idle"

\* initFaceLandmarker() from one await to the next, or to its end: the
\* awaited call gave its result (ok) or failed.
InitResumed(l, i, ok) ==
  IF ~ok
  THEN [l EXCEPT !.error = TRUE, !.initializingRef = FALSE, !.initTasks[i] = "idle"]
  ELSE IF l.initTasks[i] = "createFromOptions"
       THEN [l EXCEPT !.faceLandmarkerRef = TRUE, !.isReady = TRUE, !.error = FALSE,
                      !.initializingRef = FALSE, !.initTasks[i] = "idle"]
       ELSE [l EXCEPT !.initTasks[i] = NextAwait(l.initTasks[i])]

initFaceLandmarkerResumes(i, ok) ==
  /\ landmarker.initTasks[i] # "idle"
  /\ landmarker' = InitResumed(landmarker, i, ok)
  /\ call' = Called("initFaceLandmarkerResumes",
                    [task |-> i, await |-> landmarker.initTasks[i]], ~ok, FALSE)
  /\ UNCHANGED <<calibrationVars, faceMesh, view>>

\* React renders the component again after a change of state.
RenderLandmarker ==
  /\ landmarker.mounted
  /\ landmarker.rendered # [isReady |-> landmarker.isReady, isRunning |-> landmarker.isRunning]
  /\ landmarker' = [landmarker EXCEPT
                      !.rendered = [isReady |-> landmarker.isReady,
                                    isRunning |-> landmarker.isRunning]]
  /\ call' = Called("render", NoArg, FALSE, FALSE)
  /\ UNCHANGED <<calibrationVars, faceMesh, view>>

\* Variant: the frame callback reads the state startFaceLandmarker set.
IsRunningAfterStart(l) == TRUE

\* state.isRunning as the processVideoFrame of the latest render reads it.
CapturedIsRunning(l) == l.rendered.isRunning

\* animationFrameIdRef.current = requestAnimationFrame(processVideoFrame)
Requested(l, isRunning) ==
  [l EXCEPT !.lastId = @ + 1,
            !.animationFrameIdRef = l.lastId + 1,
            !.frames = @ \cup {[id |-> l.lastId + 1, isRunning |-> isRunning]}]

\* cancelAnimationFrame(animationFrameIdRef.current)
Cancelled(l) ==
  [l EXCEPT !.frames = {f \in @ : f.id # l.animationFrameIdRef}]

startFaceLandmarker ==
  /\ landmarker.mounted
  /\ landmarker.lastId < MaxFrameIds
  /\ LET l == landmarker
         returns == ~l.rendered.isReady \/ l.rendered.isRunning \/ l.startingRef
     IN  /\ landmarker' =
              IF returns THEN l
              ELSE [Requested(l, CapturedIsRunning(l)) EXCEPT
                      !.isRunning = TRUE, !.error = FALSE, !.stopped = FALSE]
         /\ call' = Called("startFaceLandmarker", [started |-> ~returns], FALSE, FALSE)
  /\ UNCHANGED <<calibrationVars, faceMesh, view>>

Stopped(l) ==
  [(IF l.animationFrameIdRef # 0
    THEN [Cancelled(l) EXCEPT !.animationFrameIdRef = 0]
    ELSE l) EXCEPT !.isRunning = FALSE, !.stopped = TRUE]

stopFaceLandmarker ==
  /\ landmarker.mounted
  /\ landmarker' = Stopped(landmarker)
  /\ call' = Called("stopFaceLandmarker", NoArg, FALSE, FALSE)
  /\ UNCHANGED <<calibrationVars, faceMesh, view>>

\* The cleanups of the effects: the pending frame is cancelled, then
\* stopFaceLandmarker is called.
UnmountLandmarker ==
  /\ landmarker.mounted
  /\ landmarker' = [Stopped(Cancelled(landmarker)) EXCEPT !.mounted = FALSE]
  /\ call' = Called("unmount", NoArg, FALSE, FALSE)
  /\ UNCHANGED <<calibrationVars, faceMesh, view>>

\* The video shows a new frame.
VideoAdvances ==
  /\ landmarker.currentTime < MaxVideoTime
  /\ landmarker' = [landmarker EXCEPT !.currentTime = @ + 1]
  /\ call' = Called("timeupdate", NoArg, FALSE, FALSE)
  /\ UNCHANGED <<calibrationVars, faceMesh, view>>

\* if (state.isRunning) animationFrameIdRef.current = requestAnimationFrame(...)
Continued(l, isRunning) == IF isRunning THEN Requested(l, isRunning) ELSE l

\* The catch of processVideoFrame.
LoopFailed(l) == [Cancelled(l) EXCEPT !.isRunning = FALSE, !.error = TRUE]

\* What a call of processVideoFrame for the requested frame f does up to
\* its await or its end; ready is videoElement.readyState >= 2, faces
\* whether a face was found, throws whether the detector failed.
NewVideoFrame(l) == l.lastVideoTimeRef # l.currentTime

FrameDetects(l, f, ready) ==
  l.faceLandmarkerRef /\ f.isRunning /\ NewVideoFrame(l) /\ ready

FrameEntered(l, f, ready, faces, throws) ==
  LET fired == [l EXCEPT !.frames = @ \ {f}]
      seen == [fired EXCEPT !.lastVideoTimeRef = l.currentTime]
  IN  IF ~l.faceLandmarkerRef \/ ~f.isRunning THEN fired
      ELSE IF ~NewVideoFrame(l) THEN Continued(fired, f.isRunning)
      ELSE IF ~ready THEN Continued(seen, f.isRunning)
      ELSE IF throws THEN LoopFailed(seen)
      ELSE IF faces THEN [seen EXCEPT !.suspended = @ + 1]
      ELSE Continued(seen, f.isRunning)

\* processVideoFrame after its await: the landmarks are drawn and the loop
\* goes on.  Only a call that passed the guard on isRunning gets here.
FrameResumed(l, throws) ==
  LET back == [l EXCEPT !.suspended = @ - 1]
  IN  IF throws THEN LoopFailed(back) ELSE Continued(back, TRUE)

\* The frames and suspended calls that can run next; id 0 is a suspended
\* call.
FrameTasks(l) ==
  l.frames \cup (IF l.suspended > 0 THEN {[id |-> 0, isRunning |-> TRUE]} ELSE {})

processVideoFrame(f, ready, faces, throws) ==
  /\ f \in FrameTasks(landmarker)
  /\ f.isRunning => landmarker.lastId < MaxFrameIds
  /\ landmarker' = IF f.id = 0
                   THEN FrameResumed(landmarker, throws)
                   ELSE FrameEntered(landmarker, f, ready, faces, throws)
  /\ call' = Called("processVideoFrame",
                    [id |-> f.id,
                     detected |-> f.id # 0 /\ FrameDetects(landmarker, f, ready),
                     scheduled |-> landmarker'.lastId # landmarker.lastId],
                    FALSE, FALSE)
  /\ UNCHANGED <<calibrationVars, faceMesh, view>>

(***************************************************************************)
(* hooks/useFaceMesh.ts: initFaceMesh                                      *)
(***************************************************************************)
NewFaceMeshHook ==
  [ isReady |-> FALSE, error |-> FALSE,
    faceMeshRef |-> FALSE,            \* a FaceMesh is stored
    initializingRef |-> FALSE ]

\* initFaceMesh() has no await: it runs from its guard to its finally in
\* one go.  failsAt says where it throws: in the FaceMesh constructor, in
\* setOptions or onResults, or nowhere.
InitFaceMeshDone(m, failsAt) ==
  IF m.initializingRef THEN m
  ELSE IF m.faceMeshRef THEN [m EXCEPT !.isReady = TRUE, !.error = FALSE]
  ELSE IF failsAt = "constructor" THEN [m EXCEPT !.error = TRUE]
  ELSE IF failsAt = "setOptions" THEN [m EXCEPT !.faceMeshRef = TRUE, !.error = TRUE]
  ELSE [m EXCEPT !.faceMeshRef = TRUE, !.isReady = TRUE, !.error = FALSE]

initFaceMesh(failsAt) ==
  /\ faceMesh' = InitFaceMeshDone(faceMesh, failsAt)
  /\ call' = Called("initFaceMesh", [failsAt |-> failsAt], FALSE, FALSE)
  /\ UNCHANGED <<calibrationVars, landmarker, view>>

(***************************************************************************)
(* components/FaceMeshView.tsx: startFaceMesh, stopFaceMesh, retry         *)
(*                                                                         *)
(* A tracker is the FaceMesh and the Camera one call of startFaceMesh      *)
(* creates.  startFaceMesh and handleRetry are functions of a render and   *)
(* read the isRunning and cdnAvailable of that render.                     *)
(***************************************************************************)
NoTracker == [mesh |-> "none", camera |-> "none", starting |-> FALSE]

NewFaceMeshView ==
  [ isRunning |-> FALSE, cameraReady |-> FALSE, lastError |-> FALSE,
    cdnAvailable |-> TRUE,
    rendered |-> [isRunning |-> FALSE, cameraReady |-> FALSE,
                  lastError |-> FALSE, cdnAvailable |-> TRUE],
    faceMeshRef |-> 0, cameraRef |-> 0,       \* tracker ids, 0 for null
    trackers |-> [id \in 1..MaxTrackers |-> NoTracker],
    created |-> 0,                           \* trackers created so far
    timers |-> {},                           \* renders whose retry is due
    mounted |-> TRUE ]

ViewState(v) ==
  [isRunning |-> v.isRunning, cameraReady |-> v.cameraReady,
   lastError |-> v.lastError, cdnAvailable |-> v.cdnAvailable]

\* startFaceMesh() of a render, the webcam's video and the canvas present:
\* a new FaceMesh and a new Camera replace the refs, and the camera's
\* start() is pending.
StartedFaceMesh(v, render) ==
  IF render.isRunning THEN v
  ELSE IF ~render.cdnAvailable THEN [v EXCEPT !.lastError = TRUE]
  ELSE LET id == v.created + 1
       IN  [v EXCEPT !.created = id, !.faceMeshRef = id, !.cameraRef = id,
                     !.trackers[id] =
                        [mesh |-> "open", camera |-> "starting", starting |-> TRUE]]

\* stopFaceMesh(): the camera and the FaceMesh the refs hold are stopped
\* and closed.
StoppedFaceMesh(v) ==
  LET c == v.cameraRef
      m == v.faceMeshRef
      stopped == IF c # 0 THEN [v EXCEPT !.trackers[c].camera = "stopped"] ELSE v
      closed == IF m # 0 THEN [stopped EXCEPT !.trackers[m].mesh = "closed"] ELSE stopped
  IN  [closed EXCEPT !.isRunning = FALSE]

\* onUserMedia of the webcam.
handleWebcamLoad ==
  /\ view.mounted
  /\ view' = [view EXCEPT !.cameraReady = TRUE]
  /\ call' = Called("handleWebcamLoad", NoArg, FALSE, FALSE)
  /\ UNCHANGED <<calibrationVars, landmarker, faceMesh>>

\* onUserMediaError of the webcam.
handleWebcamError ==
  /\ view.mounted
  /\ view' = [view EXCEPT !.lastError = TRUE]
  /\ call' = Called("handleWebcamError", NoArg, FALSE, FALSE)
  /\ UNCHANGED <<calibrationVars, landmarker, faceMesh>>

\* The periodic check whether the MediaPipe scripts are loaded.
checkMediaPipeAvailability(isAvailable) ==
  /\ view.mounted
  /\ view.cdnAvailable # isAvailable
  /\ view' = [view EXCEPT !.cdnAvailable = isAvailable]
  /\ call' = Called("checkMediaPipeAvailability", NoArg, FALSE, FALSE)
  /\ UNCHANGED <<calibrationVars, landmarker, faceMesh>>

\* A render after a change of state, with the effect on [cameraReady,
\* isRunning]: if one of them changed and the camera is ready and nothing
\* is running, the render's startFaceMesh is called.
RenderView ==
  /\ view.mounted
  /\ view.rendered # ViewState(view)
  /\ view.created < MaxTrackers
  /\ LET now == ViewState(view)
         before == view.rendered
         effect == /\ <<now.cameraReady, now.isRunning>>
                        # <<before.cameraReady, before.isRunning>>
                   /\ now.cameraReady /\ ~now.isRunning
         v == [view EXCEPT !.rendered = now]
     IN  /\ view' = IF effect THEN StartedFaceMesh(v, now) ELSE v
         /\ call' = Called("render", [started |-> effect], FALSE, FALSE)
  /\ UNCHANGED <<calibrationVars, landmarker, faceMesh>>

\* cameraRef.current.start() of tracker id resolves or rejects.
CameraStartSettles(id, ok) ==
  /\ view.trackers[id].starting
  /\ LET v == [view EXCEPT !.trackers[id].starting = FALSE]
         settled == IF v.trackers[id].camera # "starting" THEN v
                    ELSE [v EXCEPT !.trackers[id].camera =
                                      IF ok THEN "started" ELSE "failed"]
     IN  view' = IF ~view.mounted THEN settled
                 ELSE IF ok THEN [settled EXCEPT !.isRunning = TRUE, !.lastError = FALSE]
                 ELSE [settled EXCEPT !.lastError = TRUE]
  /\ call' = Called("cameraStartSettles", [tracker |-> id], ~ok, FALSE)
  /\ UNCHANGED <<calibrationVars, landmarker, faceMesh>>

\* The Retry button, which the error overlay of the latest render shows.
handleRetry ==
  /\ view.mounted
  /\ view.rendered.lastError
  /\ LET render == view.rendered
         v == IF render.isRunning THEN StoppedFaceMesh(view) ELSE view
     IN  view' = [v EXCEPT !.lastError = FALSE, !.timers = @ \cup {render}]
  /\ call' = Called("handleRetry", NoArg, FALSE, FALSE)
  /\ UNCHANGED <<calibrationVars, landmarker, faceMesh>>

\* The timeout of handleRetry: startFaceMesh of the render that was clicked.
RetryTimeout(render) ==
  /\ render \in view.timers
  /\ view.created < MaxTrackers
  /\ LET v == [view EXCEPT !.timers = @ \ {render}]
     IN  view' = IF view.mounted THEN StartedFaceMesh(v, render) ELSE v
  /\ call' = Called("startFaceMesh", [retry |-> TRUE], FALSE, FALSE)
  /\ UNCHANGED <<calibrationVars, landmarker, faceMesh>>

\* The cleanup of the component: stopFaceMesh.
UnmountView ==
  /\ view.mounted
  /\ view' = [StoppedFaceMesh(view) EXCEPT !.mounted = FALSE]
  /\ call' = Called("unmount", NoArg, FALSE, FALSE)
  /\ UNCHANGED <<calibrationVars, landmarker, faceMesh>>

(***************************************************************************)
(* Initial states and specifications                                       *)
(***************************************************************************)
\* What an earlier session (or anything else) may have left in storage.
StoredValid ==
  JSONstringify(MergedData(DEFAULT_CALIBRATION,
                           [screenWidthCm |-> Int2Num(50), screenHeightCm |-> Int2Num(30)]))
StoredOldVersion == [kind |-> "json", doc |-> [viewingDistanceCm |-> Int2Num(80)]]
StoredInvalid == [kind |-> "json", doc |-> [screenWidthCm |-> Int2Num(-5)]]
InitialItems == {NoItem, Garbage, Scalar, StoredValid, StoredOldVersion, StoredInvalid}

\* The module constructs the store from storage; the projector is
\* constructed on a new camera with the record getCalibration() returns.
InitWith(items) ==
  /\ storage \in items
  /\ \E getItemThrows \in BOOLEAN :
       LET d == loadCalibration(storage, getItemThrows)
       IN  /\ heap = [a \in Addr |->
                        CASE a = DefaultAddr -> DEFAULT_CALIBRATION
                          [] a = 1 -> d
                          [] a = 3 -> d
                          [] OTHER -> FreeCell]
           /\ screenWidthWorld = Mul(d.screenWidthCm, worldScale)
           /\ screenHeightWorld = Mul(d.screenHeightCm, worldScale)
           /\ call = Called("constructor", NoArg, FALSE, getItemThrows)
  /\ dataRef = 1
  /\ calibrationRef = 3
  /\ heldRef = NullRef
  /\ wizard = WizardClosed
  /\ camera = NewCamera
  /\ stabilizedPose = NoPose
  /\ samplesFed = 0
  /\ returned = <<>>
  /\ landmarker = NewFaceLandmarkerHook
  /\ faceMesh = NewFaceMeshHook
  /\ view = NewFaceMeshView

Init == InitWith({NoItem})
InitStore == InitWith({NoItem, Garbage, StoredOldVersion})

\* Inputs of the store's operations.
Partials ==
  { [isCalibrated |-> FALSE],
    [viewingDistanceCm |-> PosInf, isCalibrated |-> TRUE],
    [screenHeightCm |-> JsUndefined] }
WidthsCm == {Int2Num(50), Zero}
HeightsCm == {Int2Num(30)}
DistancesCm == {Int2Num(80)}
PixelSizes == {[w |-> Int2Num(1280), h |-> Int2Num(720)]}

\* The calibration store alone, with a storage that may fail.
NextStore ==
  \/ \E t \in BOOLEAN : Construct(t)
  \/ \E p \in Partials, t \in BOOLEAN : saveCalibration(p, t)
  \/ \E t \in BOOLEAN : resetCalibration(t)
  \/ \E w \in WidthsCm, h \in HeightsCm, t \in BOOLEAN : updateScreenDimensions(w, h, t)
  \/ \E d \in DistancesCm, t \in BOOLEAN : updateViewingDistance(d, t)
  \/ \E s \in PixelSizes, t \in BOOLEAN : updatePixelDimensions(s.w, s.h, t)

SpecStore == InitStore /\ [][NextStore]_vars

\* Callers that read the calibration and write to the record they got.
HeldNumberWrites ==
  { [key |-> "screenWidthCm", value |-> Int2Num(99)],
    [key |-> "pixelWidth", value |-> Int2Num(1)] }

NextCopy ==
  \/ getCalibration
  \/ \E w \in HeldNumberWrites : MutateHeld(w.key, w.value)
  \/ \E b \in BOOLEAN : MutateHeld("isCalibrated", b)
  \/ \E d \in DistancesCm, t \in BOOLEAN : updateViewingDistance(d, t)
  \/ \E t \in BOOLEAN : resetCalibration(t)
  \/ \E t \in BOOLEAN : Construct(t)

SpecCopy == InitStore /\ [][NextCopy]_vars

\* The calibration wizard over the store.
WidthTexts == {"", "40"}
HeightTexts == {"40"}
DistanceTexts == {"0"}

NextWizard ==
  \/ WizardMount
  \/ WizardSetStep("intro", "screen-size")
  \/ WizardSetStep("screen-size", "intro")
  \/ WizardSetStep("screen-size", "viewing-distance")
  \/ WizardSetStep("viewing-distance", "screen-size")
  \/ WizardSetStep("viewing-distance", "test")
  \/ WizardSetStep("test", "viewing-distance")
  \/ \E b \in BOOLEAN : WizardSetUseInches(b)
  \/ \E x \in WidthTexts : WizardChangeWidth(x)
  \/ \E x \in HeightTexts : WizardChangeHeight(x)
  \/ \E x \in DistanceTexts : WizardChangeDistance(x)
  \/ handleComplete(FALSE)
  \/ handleSkip(FALSE)
  \/ WizardClose
  \/ resetCalibration(FALSE)

SpecWizard == Init /\ [][NextWizard]_vars

\* The projector alone, called with any pose and any eye position.
HeadPoses ==
  { Vec(Half, Half, Int2Num(1)),
    Vec(Num(3, 10), Num(7, 10), Int2Num(2)),
    Vec(Num(3, 10), Half, Half) }
BadHeadPoses == {Vec(Half, Num(7, 10), Int2Num(-1))}
EyePositions ==
  { Vec(Zero, Zero, Num(3, 5)),
    Vec(Num(1, 10), Zero, Num(3, 10)),
    Vec(Num(1, 10), Num(1, 20), Zero),
    Vec(Zero, Num(1, 20), Num(-1, 2)) }

NextProjector ==
  \/ \E e \in EyePositions : updateProjectionMatrix(e)
  \/ \E e \in EyePositions : setCameraPosition(e)
  \/ \E p \in HeadPoses \cup BadHeadPoses : updateFromHeadPose(p)

SpecProjector == Init /\ [][NextProjector]_vars

\* The store, its callers and the projector together: calibration updates
\* interleaved with the frames of the pipeline, whose poses have a depth
\* proxy in [0.5, 2].
Next ==
  \/ \E h \in HeightsCm : updateScreenDimensions(Int2Num(50), h, FALSE)
  \/ \E d \in DistancesCm \cup {Zero} : updateViewingDistance(d, FALSE)
  \/ resetCalibration(FALSE)
  \/ getCalibration
  \/ updateCalibration
  \/ \E p \in HeadPoses : updateFromHeadPose(p)

Spec == Init /\ [][Next]_vars

(***************************************************************************)
(* Properties                                                              *)
(***************************************************************************)
SaveOps ==
  {"saveCalibration", "updateScreenDimensions", "updateViewingDistance",
   "updatePixelDimensions", "handleComplete", "handleSkip"}
data == heap[dataRef]

\* C1: updateProjectionMatrix with eye.z <= 0 leaves the projection matrix
\* and its inverse as the previous call left them, and throws nothing.
C1_DegenerateGuard ==
  [][(call'.op = "updateProjectionMatrix" /\ Le(call'.arg.z, Zero))
       => /\ camera'.projectionMatrix = camera.projectionMatrix
          /\ camera'.projectionMatrixInverse = camera.projectionMatrixInverse
          /\ ~call'.raised]_vars

\* An eye at or behind the screen plane was given after a frustum had been
\* computed, and that frustum is still the camera's.
C1_Witness ==
  /\ call.op = "updateProjectionMatrix"
  /\ Le(call.arg.z, Zero)
  /\ camera.projectionMatrix.fromFrustum
  /\ camera.projectionMatrixInverse = camera.projectionMatrix

\* C2: updateFromHeadPose is all-or-nothing: with a degenerate eye
\* (eye.z <= 0) the camera's position and its projection both stay as they
\* were; otherwise both the placement and the frustum are updated.  (The
\* orientation is left out: the statement fails on the position alone.)
C2_AllOrNothing ==
  [][call'.op = "updateFromHeadPose"
       => LET eye == headPoseToWorldPosition(call'.arg)
          IN  IF DegenerateEye(eye)
              THEN /\ camera'.position = camera.position
                   /\ camera'.projectionMatrix = camera.projectionMatrix
              ELSE /\ camera'.position = eye
                   /\ camera'.projectionMatrix.fromFrustum]_vars

\* C3: the screen size and the viewing distance the projector uses for its
\* next conversion are those of the store's current calibration.
C3_NoStaleCalibration ==
  /\ screenWidthWorld = Mul(data.screenWidthCm, worldScale)
  /\ screenHeightWorld = Mul(data.screenHeightCm, worldScale)
  /\ heap[calibrationRef].viewingDistanceCm = data.viewingDistanceCm

\* C4: writing to a field of a record that getCalibration() returned changes
\* neither what getCalibration(), isCalibrated() and getCmPerPixel() return
\* afterwards nor the stored item.
C4_GetCalibrationCopy ==
  [][call'.op = "mutate"
       => /\ heap'[dataRef'] = heap[dataRef]
          /\ isCalibrated' = isCalibrated
          /\ getCmPerPixel' = getCmPerPixel
          /\ storage' = storage]_vars

\* A caller has written to its record, which now differs from the store's.
C4_Witness ==
  /\ call.op = "mutate"
  /\ heldRef # NullRef
  /\ heap[heldRef] # data

\* C5: saveCalibration(partial) and the three update operations merge: a
\* field the partial names has the value supplied, every other field keeps
\* its value, and isCalibrated is true whatever the partial says; each
\* update operation names only its own fields.
C5_Merge ==
  [][call'.op \in SaveOps
       => LET p == call'.arg
              old == heap[dataRef]
              new == heap'[dataRef']
          IN  /\ \A k \in NumberKeys :
                   new[k] = IF k \in DOMAIN p THEN p[k] ELSE old[k]
              /\ new.isCalibrated = TRUE
              /\ call'.op = "updateScreenDimensions"
                   => DOMAIN p = {"screenWidthCm", "screenHeightCm"}
              /\ call'.op = "updateViewingDistance"
                   => DOMAIN p = {"viewingDistanceCm"}
              /\ call'.op = "updatePixelDimensions"
                   => DOMAIN p = {"pixelWidth", "pixelHeight"}]_vars

\* A partial that says isCalibrated: false was saved over a calibration with
\* a width set earlier: the width is kept and isCalibrated is true.
C5_Witness ==
  /\ call.op = "saveCalibration"
  /\ call.arg = [isCalibrated |-> FALSE]
  /\ data.isCalibrated
  /\ data.screenWidthCm = Int2Num(50)

\* What JSON can hold of a calibration: no NaN, infinity or undefined.
Persistable(o) == \A k \in NumberKeys : o[k].k \notin {"nan", "inf", "undef"}

\* C6 as stated: after an update whose storage write succeeds a newly
\* constructed store reading the same storage has the updating store's
\* calibration, and after resetCalibration() it has the defaults.
C6_RoundTrip ==
  /\ (call.op \in SaveOps /\ ~call.ioThrew)
       => loadCalibration(storage, FALSE) = data
  /\ call.op = "resetCalibration"
       => loadCalibration(storage, FALSE) = DEFAULT_CALIBRATION

\* C6 amended: the round trip holds after an update whose storage write
\* succeeds when no field of the calibration is NaN, infinite or undefined,
\* and after a resetCalibration() whose storage removal succeeds.
C6_RoundTripPersistable ==
  /\ (call.op \in SaveOps /\ ~call.ioThrew /\ Persistable(data))
       => loadCalibration(storage, FALSE) = data
  /\ (call.op = "resetCalibration" /\ ~call.ioThrew)
       => loadCalibration(storage, FALSE) = DEFAULT_CALIBRATION

\* A calibration that differs from the defaults was written to storage.
C6_Witness ==
  /\ call.op = "updateScreenDimensions"
  /\ ~call.ioThrew
  /\ Persistable(data)
  /\ data.screenWidthCm = Int2Num(50)
  /\ storage.kind = "json"

\* C7 as stated: resetCalibration sets the calibration to the defaults and
\* removes the stored item, and the default record is never altered.
C7_Reset ==
  /\ heap[DefaultAddr] = DEFAULT_CALIBRATION
  /\ call.op = "resetCalibration"
       => /\ data = DEFAULT_CALIBRATION
          /\ storage = NoItem

\* C7 amended: resetCalibration sets the calibration to the defaults, in an
\* object of its own, and removes the stored item unless the removal
\* throws; the default record is never altered.
C7_ResetUnlessRemoveThrows ==
  /\ heap[DefaultAddr] = DEFAULT_CALIBRATION
  /\ dataRef # DefaultAddr
  /\ call.op = "resetCalibration"
       => /\ data = DEFAULT_CALIBRATION
          /\ ~call.ioThrew => storage = NoItem

\* A reset whose removal succeeded: defaults in memory, nothing stored.
C7_Witness ==
  /\ call.op = "resetCalibration"
  /\ ~call.ioThrew
  /\ storage = NoItem
  /\ ~data.isCalibrated

PositiveKeys == {"screenWidthCm", "screenHeightCm", "viewingDistanceCm"}

\* C8: an update that would make a dimension non-positive is rejected: the
\* calibration and the stored item stay as they were and the caller gets a
\* validation failure.
C8_InvalidCalibrationRejected ==
  [][(/\ call'.op \in SaveOps
      /\ \E k \in NumberKeys :
           Le(MergedData(heap[dataRef], call'.arg)[k], Zero))
       => /\ heap'[dataRef'] = heap[dataRef]
          /\ storage' = storage
          /\ call'.raised]_vars

\* C9: in every state of the store the screen width, the screen height and
\* the viewing distance are greater than 0.
C9_PositiveDimensions == \A k \in PositiveKeys : Lt(Zero, data[k])

\* C10: when the storage write or removal throws, saveCalibration and
\* resetCalibration raise nothing, and the calibration in memory is the new
\* one (the merged fields, or the defaults) all the same.
C10_BestEffortPersistence ==
  [][(call'.ioThrew /\ call'.op \in SaveOps \cup {"resetCalibration"})
       => LET p == call'.arg
              new == heap'[dataRef']
          IN  /\ ~call'.raised
              /\ storage' = storage
              /\ call'.op \in SaveOps
                   => /\ \A k \in NumberKeys \cap DOMAIN p : new[k] = p[k]
                      /\ new.isCalibrated
              /\ call'.op = "resetCalibration"
                   => new = DEFAULT_CALIBRATION]_vars

\* The write threw during updateViewingDistance(80): the store holds 80 and
\* storage holds nothing.
C10_Witness ==
  /\ call.op = "updateViewingDistance"
  /\ call.ioThrew
  /\ ~call.raised
  /\ data.viewingDistanceCm = Int2Num(80)
  /\ storage = NoItem

(***************************************************************************)
(* Construction from whatever storage holds                                *)
(***************************************************************************)
\* The store constructed over any stored item, updated, reset and
\* constructed again (a page reload).
InitLoad == InitWith(InitialItems)

NextLoad ==
  \/ \E t \in BOOLEAN : Construct(t)
  \/ \E d \in DistancesCm, t \in BOOLEAN : updateViewingDistance(d, t)
  \/ \E s \in PixelSizes, t \in BOOLEAN : updatePixelDimensions(s.w, s.h, t)
  \/ \E t \in BOOLEAN : resetCalibration(t)

SpecLoad == InitLoad /\ [][NextLoad]_vars

\* A stored item that is no calibration: text that does not parse, a JSON
\* scalar, or an object with a screen size or distance that is not positive.
MalformedItem(item) ==
  \/ item.kind \in {"garbage", "scalar"}
  \/ /\ item.kind = "json"
     /\ \E k \in PositiveKeys \cap DOMAIN item.doc : ~Lt(Zero, item.doc[k])

\* C11: a store constructed over a malformed stored item raises nothing and
\* holds the compiled-in defaults.
C11_MalformedFallsBack ==
  (call.op = "constructor" /\ ~call.ioThrew /\ MalformedItem(storage))
    => /\ ~call.raised
       /\ data = DEFAULT_CALIBRATION

(***************************************************************************)
(* CalibrationManager.estimateViewingDistanceFromFaceWidth                 *)
(***************************************************************************)
\* (assumedRealFaceWidthCm * screenWidthCm) / faceWidthCm, where faceWidthCm
\* is faceWidthNormalized * pixelWidth * cmPerPixel.x
RawEstimate(faceWidthNormalized, assumedRealFaceWidthCm) ==
  LET faceWidthPixels == Mul(faceWidthNormalized, heap[dataRef].pixelWidth)
      cmPerPixel == getCmPerPixel
      faceWidthCm == Mul(faceWidthPixels, cmPerPixel.x)
  IN  Div(Mul(assumedRealFaceWidthCm, heap[dataRef].screenWidthCm), faceWidthCm)

\* Math.max(20, Math.min(150, estimatedDistance))
ClampedEstimate(estimatedDistance) ==
  MathMax(Int2Num(20), MathMin(Int2Num(150), estimatedDistance))

estimateViewingDistanceFromFaceWidth(faceWidthNormalized, assumedRealFaceWidthCm) ==
  /\ returned' =
       ClampedEstimate(RawEstimate(faceWidthNormalized, assumedRealFaceWidthCm))
  /\ call' = Called("estimateViewingDistanceFromFaceWidth",
                    [faceWidthNormalized |-> faceWidthNormalized,
                     assumedRealFaceWidthCm |-> assumedRealFaceWidthCm],
                    FALSE, FALSE)
  /\ UNCHANGED <<trackerVars, refVars, storage, wizard, projectorVars, filterVars>>

\* Face widths giving raw estimates of 5, 30, 150, 500 cm and infinity with
\* the assumed face width of 15 cm.
FaceWidths == {Int2Num(3), Num(1, 2), Num(1, 10), Num(3, 100), Zero}
AssumedFaceWidthsCm == {Int2Num(15)}

NextEstimate ==
  \/ \E f \in FaceWidths, a \in AssumedFaceWidthsCm :
       estimateViewingDistanceFromFaceWidth(f, a)
  \/ \E w \in WidthsCm, h \in HeightsCm : updateScreenDimensions(w, h, FALSE)
  \/ \E s \in PixelSizes : updatePixelDimensions(s.w, s.h, FALSE)
  \/ \E d \in DistancesCm : updateViewingDistance(d, FALSE)
  \/ resetCalibration(FALSE)

SpecEstimate == Init /\ [][NextEstimate]_vars

\* C12: the estimate is in [20, 150] for every face width and every
\* calibration the store reaches: 20 when the raw estimate is below 20, 150
\* when it is above 150, the raw estimate itself otherwise.
C12_EstimateClamped ==
  call.op = "estimateViewingDistanceFromFaceWidth"
    => LET raw == RawEstimate(call.arg.faceWidthNormalized,
                              call.arg.assumedRealFaceWidthCm)
       IN  /\ Le(Int2Num(20), returned) /\ Le(returned, Int2Num(150))
           /\ Lt(raw, Int2Num(20)) => returned = Int2Num(20)
           /\ Lt(Int2Num(150), raw) => returned = Int2Num(150)
           /\ (Le(Int2Num(20), raw) /\ Le(raw, Int2Num(150))) => returned = raw

(***************************************************************************)
(* utils/headPose.ts: the head-pose filter                                 *)
(***************************************************************************)
\* Math.max(0.5, Math.min(2.0, depthProxy))
ClampDepth(depthProxy) == MathMax(Half, MathMin(Int2Num(2), depthProxy))

smoothingFactor == Num(3, 10)

\* previous + smoothingFactor * (sample - previous)
Smoothed(previous, sample) ==
  Add(previous, Mul(smoothingFactor, Sub(sample, previous)))

\* Variant: without a sample the filter snaps to the centred pose.
StabilizedOrCentred(previous, sample) ==
  IF sample = NoPose
  THEN Vec(Half, Half, Int2Num(1))
  ELSE IF previous = NoPose
       THEN [sample EXCEPT !.z = ClampDepth(sample.z)]
       ELSE Vec(Smoothed(previous.x, sample.x),
                Smoothed(previous.y, sample.y),
                Smoothed(previous.z, ClampDepth(sample.z)))

\* The stabilized pose after update(sample): held when the sample is null,
\* the sample itself when it is the first, the moving average otherwise; the
\* depth proxy is clamped before it is smoothed.
Stabilized(previous, sample) ==
  IF sample = NoPose
  THEN previous
  ELSE IF previous = NoPose
       THEN [sample EXCEPT !.z = ClampDepth(sample.z)]
       ELSE Vec(Smoothed(previous.x, sample.x),
                Smoothed(previous.y, sample.y),
                Smoothed(previous.z, ClampDepth(sample.z)))

update(sample) ==
  /\ sample = NoPose \/ samplesFed < MaxSamples
  /\ stabilizedPose' = Stabilized(stabilizedPose, sample)
  /\ samplesFed' = IF sample = NoPose THEN samplesFed ELSE samplesFed + 1
  /\ returned' = Stabilized(stabilizedPose, sample)
  /\ call' = Called("update", sample, FALSE, FALSE)
  /\ UNCHANGED <<trackerVars, refVars, storage, wizard, projectorVars>>

RawPoseSamples ==
  { Vec(Half, Half, Int2Num(1)),
    Vec(Num(3, 10), Num(7, 10), Int2Num(3)),
    Vec(Num(4, 5), Num(1, 5), Num(1, 10)),
    Vec(Num(1, 5), Half, Int2Num(2)) }

NextFilter ==
  \/ \E sample \in RawPoseSamples : update(sample)
  \/ update(NoPose)

SpecFilter == Init /\ [][NextFilter]_vars

\* C13: update(null) leaves the stabilized pose as it is and returns it,
\* however many nulls came before; before any sample it returns null.
C13_NullSampleHold ==
  [][(call'.op = "update" /\ call'.arg = NoPose)
       => /\ stabilizedPose' = stabilizedPose
          /\ returned' = stabilizedPose]_vars

\* A null fed after two samples: the smoothed pose is still there.
C13_Witness ==
  /\ call.op = "update"
  /\ call.arg = NoPose
  /\ samplesFed = 2
  /\ stabilizedPose # NoPose
  /\ returned = stabilizedPose

(***************************************************************************)
(* components/FaceMeshView.tsx: onResults, from landmarks to a head pose   *)
(***************************************************************************)
\* The integer square root; Math.sqrt of a rational is exact when the
\* rational is a square and rounded down to its denominator otherwise.
ISqrt(n) == CHOOSE r \in 0 .. n : r * r <= n /\ (r + 1) * (r + 1) > n

MathSqrt(a0) ==
  LET a == ToNumber(a0)
  IN  CASE a.k = "nan" -> NaN
        [] a.k = "inf" -> IF a.n > 0 THEN PosInf ELSE NaN
        [] a.n < 0 -> NaN
        [] OTHER -> Num(ISqrt(a.n * a.d), a.d)

\* Math.sqrt(Math.pow(b.x - a.x, 2) + Math.pow(b.y - a.y, 2))
Distance(a, b) ==
  MathSqrt(Add(Mul(Sub(b.x, a.x), Sub(b.x, a.x)),
               Mul(Sub(b.y, a.y), Sub(b.y, a.y))))

Point(x, y) == [x |-> x, y |-> y]

\* A detected face: how many landmarks it has, and landmarks 133, 362, 1,
\* 33 and 263.
Face(length, leftEyeInner, rightEyeInner, noseTip, leftEyeOuter, rightEyeOuter) ==
  [length |-> length, leftEyeInner |-> leftEyeInner,
   rightEyeInner |-> rightEyeInner, noseTip |-> noseTip,
   leftEyeOuter |-> leftEyeOuter, rightEyeOuter |-> rightEyeOuter]

\* The pose onResults computes from a face.
PoseOfLandmarks(landmarks) ==
  LET faceX == Div(Add(Add(landmarks.leftEyeInner.x, landmarks.rightEyeInner.x),
                       landmarks.noseTip.x), Int2Num(3))
      faceY == Div(Add(Add(landmarks.leftEyeInner.y, landmarks.rightEyeInner.y),
                       landmarks.noseTip.y), Int2Num(3))
      interOcularDist == Distance(landmarks.leftEyeInner, landmarks.rightEyeInner)
      eyeWidth == Distance(landmarks.leftEyeOuter, landmarks.rightEyeOuter)
      depthProxy == Div(Add(interOcularDist, Mul(eyeWidth, Half)), Num(15, 100))
  IN  Vec(faceX, faceY, ClampDepth(depthProxy))

\* What onResults hands to onHeadPoseUpdate, call by call.
HandedOn(results, canvas, ctx, onHeadPoseUpdate) ==
  IF ~canvas \/ ~ctx
  THEN <<>>
  ELSE IF Len(results.multiFaceLandmarks) > 0
       THEN IF onHeadPoseUpdate /\ results.multiFaceLandmarks[1].length >= 468
            THEN <<PoseOfLandmarks(results.multiFaceLandmarks[1])>>
            ELSE <<>>
       ELSE IF onHeadPoseUpdate THEN <<NoPose>> ELSE <<>>

\* onResults(results) with or without a canvas, a 2d context and a callback;
\* the drawing on the canvas is left out.
onResults(results, canvas, ctx, onHeadPoseUpdate) ==
  /\ returned' = HandedOn(results, canvas, ctx, onHeadPoseUpdate)
  /\ call' = Called("onResults",
                    [results |-> results, canvas |-> canvas, ctx |-> ctx,
                     onHeadPoseUpdate |-> onHeadPoseUpdate],
                    FALSE, FALSE)
  /\ UNCHANGED <<trackerVars, refVars, storage, wizard, projectorVars, filterVars>>


\* Faces: the eyes 0.2 and 0.4 apart (depth proxy 2.67), 0.1 and 0.2 apart
\* (1.33), 0.02 and 0.04 apart (0.27), tilted (inner eyes 0.06 across and
\* 0.08 down, 0.1 apart), all landmarks in one point (0), and a face whose
\* landmark 133 has no x.
FaceShapes ==
  { [li |-> Point(Num(2, 5), Half), ri |-> Point(Num(3, 5), Half),
     lo |-> Point(Num(3, 10), Half), ro |-> Point(Num(7, 10), Half)],
    [li |-> Point(Num(9, 20), Half), ri |-> Point(Num(11, 20), Half),
     lo |-> Point(Num(2, 5), Half), ro |-> Point(Num(3, 5), Half)],
    [li |-> Point(Num(49, 100), Half), ri |-> Point(Num(51, 100), Half),
     lo |-> Point(Num(12, 25), Half), ro |-> Point(Num(13, 25), Half)],
    [li |-> Point(Num(47, 100), Num(23, 50)), ri |-> Point(Num(53, 100), Num(27, 50)),
     lo |-> Point(Num(2, 5), Half), ro |-> Point(Num(3, 5), Half)],
    [li |-> Point(Half, Half), ri |-> Point(Half, Half),
     lo |-> Point(Half, Half), ro |-> Point(Half, Half)],
    [li |-> Point(NaN, Half), ri |-> Point(Num(3, 5), Half),
     lo |-> Point(Num(3, 10), Half), ro |-> Point(Num(7, 10), Half)] }
\* 468 landmarks, 478 with the irises, or a face with fewer.
LandmarkCounts == {468, 478, 5}

DetectionResults ==
  { [multiFaceLandmarks |-> <<>>] } \cup
  { [multiFaceLandmarks |->
       <<Face(n, f.li, f.ri, Point(Half, Num(3, 5)), f.lo, f.ro)>>] :
    n \in LandmarkCounts, f \in FaceShapes }

NextAdapter ==
  \E results \in DetectionResults, canvas \in BOOLEAN, ctx \in BOOLEAN,
     registered \in BOOLEAN :
    onResults(results, canvas, ctx, registered)

SpecAdapter == Init /\ [][NextAdapter]_vars

\* C14: every pose onResults hands on has z in [0.5, 2], whatever the
\* coordinates of the landmarks, so that 1 / z is never a division by 0.
C14_DepthProxyBounded ==
  call.op = "onResults"
    => \A i \in 1 .. Len(returned) :
         returned[i] # NoPose
           => /\ Le(Half, returned[i].z)
              /\ Le(returned[i].z, Int2Num(2))

\* C15: a detection result that reaches onResults while there is a canvas
\* (with its 2d context) and a callback leads to exactly one call of the
\* callback: with a sample when a face was detected, with null when not.
C15_OneSamplePerFrame ==
  (call.op = "onResults" /\ call.arg.canvas /\ call.arg.ctx
     /\ call.arg.onHeadPoseUpdate)
    => /\ Len(returned) = 1
       /\ (Len(call.arg.results.multiFaceLandmarks) > 0) = (returned[1] # NoPose)

(***************************************************************************)
(* Calibration updates from the UI between the frames of the projector     *)
(***************************************************************************)
\* The wizard completed with a new width and height, the store updated
\* directly, and the owner of the projector reading the calibration and
\* handing it to the projector between frames.  Handlers run to completion:
\* each is one step.
NextSnapshot ==
  \/ WizardMount
  \/ WizardSetStep("intro", "screen-size")
  \/ WizardSetStep("screen-size", "viewing-distance")
  \/ WizardSetStep("viewing-distance", "test")
  \/ \E x \in WidthTexts : WizardChangeWidth(x)
  \/ \E x \in HeightTexts : WizardChangeHeight(x)
  \/ handleComplete(FALSE)
  \/ \E h \in HeightsCm : updateScreenDimensions(Int2Num(50), h, FALSE)
  \/ getCalibration
  \/ updateCalibration
  \/ updateFromHeadPose(Vec(Half, Half, Int2Num(1)))

SpecSnapshot == Init /\ [][NextSnapshot]_vars

\* What the projector converts a pose with.
ProjectorCalibration ==
  [calibration |-> heap[calibrationRef],
   screenWidthWorld |-> screenWidthWorld,
   screenHeightWorld |-> screenHeightWorld]

\* C16: every calibration the projector reads is the store's state after a
\* whole number of completed updates.  A record is handed out as the whole
\* state of the store between two operations (getCalibration, and the
\* wizard's onComplete after its one save); it does not change while it is
\* held; updateCalibration takes the record and both world sizes from it;
\* and nothing else changes what the projector reads.
C16_AtomicSnapshots ==
  [][/\ call'.op \in {"getCalibration", "handleComplete"}
          => heap'[heldRef'] = heap'[dataRef']
     /\ (call'.op \notin {"getCalibration", "handleComplete"} /\ heldRef # NullRef)
          => heap'[heldRef'] = heap[heldRef]
     /\ call'.op = "updateCalibration"
          => ProjectorCalibration' =
               [calibration |-> heap[heldRef],
                screenWidthWorld |-> Mul(heap[heldRef].screenWidthCm, worldScale),
                screenHeightWorld |-> Mul(heap[heldRef].screenHeightCm, worldScale)]
     /\ call'.op # "updateCalibration"
          => ProjectorCalibration' = ProjectorCalibration]_vars

\* The projector was given the calibration of updateScreenDimensions(50, 30)
\* whole, and the wizard has changed the store since.
C16_Witness ==
  /\ ProjectorCalibration.calibration.screenWidthCm = Int2Num(50)
  /\ ProjectorCalibration.calibration.screenHeightCm = Int2Num(30)
  /\ screenWidthWorld = Half
  /\ screenHeightWorld = Num(3, 10)
  /\ data.screenWidthCm = Int2Num(40)
  /\ data.screenHeightCm = Int2Num(40)

(***************************************************************************)
(* headPoseToWorldPosition over calibrations and depth proxies             *)
(***************************************************************************)
ViewingDistancesCm == {Int2Num(80), Half, Zero}
DepthProxies == {Num(1, 10), Int2Num(1), Int2Num(2), Int2Num(3)}
DepthPoses ==
  { Vec(x, Num(7, 10), z) : x \in {Half, Num(3, 10)}, z \in DepthProxies }

NextDepth ==
  \/ \E d \in ViewingDistancesCm : updateViewingDistance(d, FALSE)
  \/ getCalibration
  \/ updateCalibration
  \/ \E p \in DepthPoses : updateFromHeadPose(p)

SpecDepth == Init /\ [][NextDepth]_vars

\* C17: with a viewing distance above 0, of two poses with the same x and y
\* the one with the smaller depth proxy (both above 0) has the larger eye.z,
\* and eye.z is viewingDistanceCm * 0.01 at depth proxy 1.
C17_MonotonicDepth ==
  Lt(Zero, heap[calibrationRef].viewingDistanceCm)
    => /\ \A p, q \in DepthPoses :
            (p.x = q.x /\ p.y = q.y /\ Lt(Zero, p.z) /\ Lt(p.z, q.z))
              => Lt(headPoseToWorldPosition(q).z, headPoseToWorldPosition(p).z)
       /\ \A p \in DepthPoses :
            p.z = Int2Num(1)
              => headPoseToWorldPosition(p).z =
                   Mul(heap[calibrationRef].viewingDistanceCm, worldScale)

\* With the viewing distance at 80 cm a frame with depth proxy 2 has put the
\* camera 0.4 m from the screen.
C17_Witness ==
  /\ call.op = "updateFromHeadPose"
  /\ call.arg.z = Int2Num(2)
  /\ heap[calibrationRef].viewingDistanceCm = Int2Num(80)
  /\ camera.position.z = Num(2, 5)

(***************************************************************************)
(* The frustum and the placement the projector hands to the renderer       *)
(***************************************************************************)
CentredPose == Vec(Num(1, 2), Num(1, 2), Int2Num(1))

\* The projector's calibration has a positive screen size and distance.
PositiveProjectorCalibration ==
  /\ \A k \in PositiveKeys :
       /\ heap[calibrationRef][k].k = "num"
       /\ Lt(Zero, heap[calibrationRef][k])
  /\ Lt(Zero, screenWidthWorld)
  /\ Lt(Zero, screenHeightWorld)

\* C18: for the centred pose (0.5, 0.5, 1) and a calibration with positive
\* dimensions the eye is at (0, 0, viewingDistanceCm * 0.01) and the frustum
\* is symmetric: left = -right and bottom = -top.
C18_CentredSymmetry ==
  [][(call'.op = "updateFromHeadPose" /\ call'.arg = CentredPose
        /\ PositiveProjectorCalibration)
       => LET m == camera'.projectionMatrix
          IN  /\ m.fromFrustum
              /\ camera'.position =
                   Vec(Zero, Zero,
                       Mul(heap[calibrationRef].viewingDistanceCm, worldScale))
              /\ m.left = Neg(m.right) /\ Lt(Zero, m.right)
              /\ m.bottom = Neg(m.top) /\ Lt(Zero, m.top)]_vars

\* The centred pose on a 50 cm by 30 cm screen seen from 80 cm: the frustum
\* is 1/64 to either side and 3/320 up and down at the near plane.
C18_Witness ==
  /\ call.op = "updateFromHeadPose"
  /\ call.arg = CentredPose
  /\ screenWidthWorld = Half
  /\ camera.projectionMatrix.right = Num(1, 64)
  /\ camera.projectionMatrix.left = Num(-1, 64)
  /\ camera.projectionMatrix.top = Num(3, 320)


\* The camera after updateFromHeadPose for each pose of a sequence in turn.
RECURSIVE Replay(_, _)
Replay(cam, poses) ==
  IF poses = <<>>
  THEN cam
  ELSE Replay(FrameCamera(cam, Head(poses)), Tail(poses))

PosesBetween == UNION {[1 .. n -> HeadPoses] : n \in 0 .. MaxBetween}

\* C19: once updateFromHeadPose has processed a pose, processing that pose
\* again with the calibration unchanged gives the same frustum and the same
\* placement, whatever poses were processed in between.
C19_Determinism ==
  call.op = "updateFromHeadPose"
    => \A between \in PosesBetween :
         Replay(camera, between \o <<call.arg>>) = camera

\* A frame that wrote a frustum, to be repeated after other poses.
C19_Witness ==
  /\ call.op = "updateFromHeadPose"
  /\ camera.projectionMatrix.fromFrustum
  /\ camera.position = headPoseToWorldPosition(call.arg)
  /\ \E q \in HeadPoses : FrameCamera(camera, q) # camera


\* C20 as stated: setCameraPosition(eye) puts the camera at the eye and aims
\* it at the origin of the screen plane, (0, 0, 0).
C20_LookAtOrigin ==
  call.op = "setCameraPosition"
    => /\ camera.position = call.arg
       /\ camera.lookAt = Vec(Zero, Zero, Zero)

\* C20 amended: setCameraPosition(eye) puts the camera at the eye and aims
\* it at (eye.x, eye.y, 0), the point of the screen plane straight in front
\* of the eye, which is the origin only for an eye on the z axis.
C20_LookAtScreenPoint ==
  call.op = "setCameraPosition"
    => /\ camera.position = call.arg
       /\ camera.lookAt = Vec(call.arg.x, call.arg.y, Zero)
       /\ (camera.lookAt = Vec(Zero, Zero, Zero))
            = (call.arg.x = Zero /\ call.arg.y = Zero)

\* The camera placed at an eye off the z axis.
C20_Witness ==
  /\ call.op = "setCameraPosition"
  /\ call.arg = Vec(Num(1, 10), Zero, Num(3, 10))
  /\ camera.position = call.arg
  /\ camera.lookAt = Vec(Num(1, 10), Zero, Zero)

(***************************************************************************)
(* Long runs of the filter.  After n updates a stabilized value has n      *)
(* more decimal places, so these runs keep numbers as signed decimals      *)
(* mag / 10^exp whose magnitude is a sequence of limbs in base 10^4, least *)
(* significant first, without leading zero limbs.                          *)
(***************************************************************************)
MaxFeeds == 42

Base == 10000
Limb(a, i) == IF i <= Len(a) THEN a[i] ELSE 0
Longer(a, b) == IF Len(a) >= Len(b) THEN Len(a) ELSE Len(b)

RECURSIVE BigTrim(_)
BigTrim(a) ==
  IF a # <<>> /\ a[Len(a)] = 0 THEN BigTrim(SubSeq(a, 1, Len(a) - 1)) ELSE a

RECURSIVE BigAddFrom(_, _, _, _)
BigAddFrom(a, b, i, carry) ==
  IF i > Longer(a, b)
  THEN IF carry = 0 THEN <<>> ELSE <<carry>>
  ELSE LET s == Limb(a, i) + Limb(b, i) + carry
       IN  <<s % Base>> \o BigAddFrom(a, b, i + 1, s \div Base)
BigAdd(a, b) == BigAddFrom(a, b, 1, 0)

\* a - b for a >= b.
RECURSIVE BigSubFrom(_, _, _, _)
BigSubFrom(a, b, i, borrow) ==
  IF i > Len(a)
  THEN <<>>
  ELSE LET s == Limb(a, i) - Limb(b, i) - borrow
       IN  IF s < 0
           THEN <<s + Base>> \o BigSubFrom(a, b, i + 1, 1)
           ELSE <<s>> \o BigSubFrom(a, b, i + 1, 0)
BigSub(a, b) == BigTrim(BigSubFrom(a, b, 1, 0))

\* a * c for a natural number c below the base.
RECURSIVE BigMulFrom(_, _, _, _)
BigMulFrom(a, c, i, carry) ==
  IF i > Len(a)
  THEN IF carry = 0 THEN <<>> ELSE <<carry>>
  ELSE LET p == a[i] * c + carry
       IN  <<p % Base>> \o BigMulFrom(a, c, i + 1, p \div Base)
BigMul(a, c) == BigTrim(BigMulFrom(a, c, 1, 0))

\* a * 10^j: j \div 4 whole limbs, and the rest by multiplication.
BigTimes10(a, j) ==
  LET rest == CASE j % 4 = 0 -> 1 [] j % 4 = 1 -> 10 [] j % 4 = 2 -> 100 [] OTHER -> 1000
  IN  IF a = <<>> THEN <<>> ELSE [i \in 1..(j \div 4) |-> 0] \o BigMul(a, rest)

RECURSIVE BigLtFrom(_, _, _)
BigLtFrom(a, b, i) ==
  IF i = 0 THEN FALSE
  ELSE IF a[i] # b[i] THEN a[i] < b[i] ELSE BigLtFrom(a, b, i - 1)
BigLt(a, b) ==
  IF Len(a) # Len(b) THEN Len(a) < Len(b) ELSE BigLtFrom(a, b, Len(a))

\* The decimal n / 10^e of an integer n, |n| below the base.
Dec(n, e) == [neg |-> n < 0, mag |-> BigTrim(<<Abs(n)>>), exp |-> e]
DecNeg(a) == [a EXCEPT !.neg = ~a.neg /\ a.mag # <<>>]
DecAbs(a) == [a EXCEPT !.neg = FALSE]
DecAdd(a, b) ==
  LET e == IF a.exp >= b.exp THEN a.exp ELSE b.exp
      ma == BigTimes10(a.mag, e - a.exp)
      mb == BigTimes10(b.mag, e - b.exp)
  IN  IF a.neg = b.neg
      THEN [neg |-> a.neg, mag |-> BigAdd(ma, mb), exp |-> e]
      ELSE IF BigLt(ma, mb)
           THEN [neg |-> b.neg, mag |-> BigSub(mb, ma), exp |-> e]
           ELSE [neg |-> a.neg /\ ma # mb, mag |-> BigSub(ma, mb), exp |-> e]
DecSub(a, b) == DecAdd(a, DecNeg(b))
\* a * f for a factor f in tenths or in units, as smoothingFactor is.
DecMul(a, f) ==
  [neg |-> (a.neg # (f.n < 0)) /\ a.mag # <<>> /\ f.n # 0,
   mag |-> BigMul(a.mag, Abs(f.n)),
   exp |-> a.exp + (IF f.d = 10 THEN 1 ELSE 0)]
DecEq(a, b) == DecSub(a, b).mag = <<>>
DecLt(a, b) == DecSub(a, b).neg
DecLe(a, b) == ~DecLt(b, a)
DecMax(a, b) == IF DecLt(a, b) THEN b ELSE a
DecMin(a, b) == IF DecLt(b, a) THEN b ELSE a

\* Math.max(0.5, Math.min(2.0, depthProxy))
ClampDepthExact(depthProxy) == DecMax(Dec(5, 1), DecMin(Dec(2, 0), depthProxy))

\* Variant: the step taken away from the sample.
SmoothedAway(previous, sample) ==
  DecAdd(previous, DecMul(DecSub(previous, sample), smoothingFactor))

\* previous + smoothingFactor * (sample - previous)
SmoothedExact(previous, sample) ==
  DecAdd(previous, DecMul(DecSub(sample, previous), smoothingFactor))

StabilizedExact(previous, sample) ==
  IF sample = NoPose
  THEN previous
  ELSE IF previous = NoPose
       THEN [sample EXCEPT !.z = ClampDepthExact(sample.z)]
       ELSE Vec(SmoothedExact(previous.x, sample.x),
                SmoothedExact(previous.y, sample.y),
                SmoothedExact(previous.z, ClampDepthExact(sample.z)))

updateExact(sample) ==
  /\ samplesFed < MaxFeeds
  /\ stabilizedPose' = StabilizedExact(stabilizedPose, sample)
  /\ samplesFed' = samplesFed + 1
  /\ returned' = StabilizedExact(stabilizedPose, sample)
  /\ call' = Called("update", sample, FALSE, FALSE)
  /\ UNCHANGED <<trackerVars, refVars, storage, wizard, projectorVars>>

\* The first sample gives the filter its initial value; then one sample is
\* fed again and again.
InitialSamples ==
  { Vec(Dec(0, 0), Dec(1, 0), Dec(5, 1)),
    Vec(Dec(5, 1), Dec(5, 1), Dec(1, 0)) }
ConstantSamples ==
  { Vec(Dec(1, 0), Dec(0, 0), Dec(2, 0)),
    Vec(Dec(6, 1), Dec(5, 1), Dec(3, 0)),
    Vec(Dec(3, 1), Dec(7, 1), Dec(8, 1)) }

FeedInitial == stabilizedPose = NoPose /\ \E s \in InitialSamples : updateExact(s)
FeedConstant ==
  /\ stabilizedPose # NoPose
  /\ \E s \in ConstantSamples :
       /\ samplesFed = 1 \/ call.arg = s
       /\ updateExact(s)

NextConverge == FeedInitial \/ FeedConstant

SpecConverge == Init /\ [][NextConverge]_vars

\* The sample as the filter takes it, and the distance to it on each axis.
Taken(sample) == [sample EXCEPT !.z = ClampDepthExact(sample.z)]
Axes == {"x", "y", "z"}
Error(pose, sample, axis) == DecSub(pose[axis], Taken(sample)[axis])
Tolerance == Dec(1, 6)

\* C21 as stated: once the constant sample has been fed 30 times, the
\* stabilized pose is within 1e-6 of it on every axis.
C21_ConvergedBy30 ==
  (call.op = "update" /\ samplesFed - 1 >= 30)
    => \A axis \in Axes :
         DecLe(DecAbs(Error(stabilizedPose, call.arg, axis)), Tolerance)

\* C21: each update with a sample multiplies the signed distance to the
\* sample by exactly 0.7 on each axis, so it strictly decreases without
\* overshoot or change of sign; for poses in range (x, y in [0, 1], depth
\* proxy in [0.5, 2]) it is within 1e-6 once the sample has been fed 40
\* times.
C21_GeometricConvergence ==
  [][(call'.op = "update" /\ stabilizedPose # NoPose)
       => \A axis \in Axes :
            LET before == Error(stabilizedPose, call'.arg, axis)
                after == Error(stabilizedPose', call'.arg, axis)
            IN  /\ DecEq(DecMul(after, Int2Num(10)), DecMul(before, Int2Num(7)))
                /\ before.mag # <<>> => DecLt(DecAbs(after), DecAbs(before))
                /\ after.neg = before.neg
                /\ samplesFed' - 1 >= 40 => DecLe(DecAbs(after), Tolerance)]_vars

\* The sample (1, 0, 2) fed 40 times from (0, 1, 0.5): every axis is still
\* off the sample, by no more than 1e-6.
C21_Witness ==
  /\ call.op = "update"
  /\ call.arg = Vec(Dec(1, 0), Dec(0, 0), Dec(2, 0))
  /\ samplesFed - 1 = 40
  /\ \A axis \in Axes :
       /\ Error(stabilizedPose, call.arg, axis).mag # <<>>
       /\ DecLe(DecAbs(Error(stabilizedPose, call.arg, axis)), Tolerance)

(***************************************************************************)
(* The frustum of updateProjectionMatrix under changing screen sizes       *)
(***************************************************************************)
FrustumEyes == EyePositions \cup {Vec(Num(-1, 5), Num(1, 10), Num(3, 5))}

NextFrustum ==
  \/ \E w \in WidthsCm, h \in HeightsCm : updateScreenDimensions(w, h, FALSE)
  \/ resetCalibration(FALSE)
  \/ getCalibration
  \/ updateCalibration
  \/ \E e \in FrustumEyes : updateProjectionMatrix(e)

SpecFrustum == Init /\ [][NextFrustum]_vars

\* C22: for eye.z > 0 updateProjectionMatrix writes the frustum
\* left = (-W/2 - eye.x) * near/eye.z, right = (W/2 - eye.x) * near/eye.z,
\* bottom = (-H/2 - eye.y) * near/eye.z, top = (H/2 - eye.y) * near/eye.z
\* with W, H the projector's screen size; so left < right when W > 0,
\* bottom < top when H > 0, and right - left = W * near/eye.z whatever
\* eye.x is.
C22_FrustumBounds ==
  [][(call'.op = "updateProjectionMatrix" /\ Lt(Zero, call'.arg.z))
       => LET eye == call'.arg
              W == screenWidthWorld
              H == screenHeightWorld
              scale == Div(nearPlane, eye.z)
              m == camera'.projectionMatrix
          IN  /\ m.fromFrustum
              /\ m.left = Mul(Sub(Neg(Div(W, Int2Num(2))), eye.x), scale)
              /\ m.right = Mul(Sub(Div(W, Int2Num(2)), eye.x), scale)
              /\ m.bottom = Mul(Sub(Neg(Div(H, Int2Num(2))), eye.y), scale)
              /\ m.top = Mul(Sub(Div(H, Int2Num(2)), eye.y), scale)
              /\ Lt(Zero, W) => Lt(m.left, m.right)
              /\ Lt(Zero, H) => Lt(m.bottom, m.top)
              /\ Sub(m.right, m.left) = Mul(W, scale)
              /\ Sub(m.top, m.bottom) = Mul(H, scale)]_vars

\* An eye off the axis in front of a 50 cm wide screen: the frustum is
\* skewed, and as wide as for an eye on the axis.
C22_Witness ==
  /\ call.op = "updateProjectionMatrix"
  /\ call.arg = Vec(Num(-1, 5), Num(1, 10), Num(3, 5))
  /\ screenWidthWorld = Half
  /\ camera.projectionMatrix.fromFrustum
  /\ camera.projectionMatrix.left # Neg(camera.projectionMatrix.right)
  /\ Sub(camera.projectionMatrix.right, camera.projectionMatrix.left)
       = Mul(Half, Div(nearPlane, Num(3, 5)))

(***************************************************************************)
(* The lateral position of the eye                                         *)
(***************************************************************************)
LateralPoses ==
  { Vec(Num(1, 5), Half, Half),
    Vec(Num(1, 5), Num(7, 10), Int2Num(2)),
    Vec(Half, Half, Int2Num(2)),
    Vec(Half, Num(7, 10), Half),
    Vec(Num(4, 5), Half, Half),
    Vec(Num(4, 5), Num(7, 10), Int2Num(2)) }

NextLateral ==
  \/ \E w \in WidthsCm, h \in HeightsCm : updateScreenDimensions(w, h, FALSE)
  \/ \E d \in DistancesCm : updateViewingDistance(d, FALSE)
  \/ getCalibration
  \/ updateCalibration
  \/ \E p \in LateralPoses : updateFromHeadPose(p)

SpecLateral == Init /\ [][NextLateral]_vars

\* C23: the eye is at x = (0.5 - pose.x) * W * 1.5 and
\* y = (0.5 - pose.y) * H * 1.5 with W, H the projector's screen size: no
\* lateral offset at pose (0.5, 0.5), x strictly decreasing in pose.x when
\* W > 0 (likewise y), and the same for every depth proxy and viewing
\* distance.
C23_LateralMapping ==
  LET W == screenWidthWorld
      H == screenHeightWorld
      eye(p) == headPoseToWorldPosition(p)
  IN  /\ call.op = "updateFromHeadPose"
           => /\ camera.position.x
                   = Mul(Mul(Sub(Half, call.arg.x), W), Num(3, 2))
              /\ camera.position.y
                   = Mul(Mul(Sub(Half, call.arg.y), H), Num(3, 2))
      /\ \A p, q \in LateralPoses :
           /\ p.x = Half => eye(p).x = Zero
           /\ p.y = Half => eye(p).y = Zero
           /\ p.x = q.x => eye(p).x = eye(q).x
           /\ p.y = q.y => eye(p).y = eye(q).y
           /\ (Lt(Zero, W) /\ Lt(p.x, q.x)) => Lt(eye(q).x, eye(p).x)
           /\ (Lt(Zero, H) /\ Lt(p.y, q.y)) => Lt(eye(q).y, eye(p).y)

\* A face to the right of the image centre (x = 0.8) on a 50 cm wide screen
\* seen from 80 cm: the eye is 0.225 to the left, at depth proxy 2 as at
\* any other.
C23_Witness ==
  /\ call.op = "updateFromHeadPose"
  /\ call.arg.x = Num(4, 5)
  /\ call.arg.z = Int2Num(2)
  /\ screenWidthWorld = Half
  /\ heap[calibrationRef].viewingDistanceCm = Int2Num(80)
  /\ camera.position.x = Num(-9, 40)

(***************************************************************************)
(* useFaceLandmarker: initialization, start, the frame loop and stop       *)
(***************************************************************************)
NextLandmarker ==
  \/ \E i \in 1..MaxInitCalls : initFaceLandmarker(i)
  \/ \E i \in 1..MaxInitCalls, ok \in BOOLEAN : initFaceLandmarkerResumes(i, ok)
  \/ RenderLandmarker
  \/ startFaceLandmarker
  \/ stopFaceLandmarker
  \/ UnmountLandmarker
  \/ VideoAdvances
  \/ \E f \in FrameTasks(landmarker), ready, faces, throws \in BOOLEAN :
       processVideoFrame(f, ready, faces, throws)

SpecLandmarker == Init /\ [][NextLandmarker]_vars


SpecLandmarkerLoop ==
  /\ SpecLandmarker
  /\ WF_vars(\E f \in FrameTasks(landmarker), ready, faces, throws \in BOOLEAN :
               processVideoFrame(f, ready, faces, throws))
  /\ WF_vars(RenderLandmarker)
  /\ WF_vars(VideoAdvances)

\* C25: after startFaceLandmarker has started the loop (isReady, not
\* isRunning), a call of processVideoFrame runs the detector, unless the
\* loop is stopped or fails first.
C25_StartLeadsToDetection ==
  (call.op = "startFaceLandmarker" /\ call.arg.started)
    ~> \/ call.op = "processVideoFrame" /\ call.arg.detected
       \/ landmarker.stopped
       \/ landmarker.error


(***************************************************************************)
(* Initialization of the two hooks                                         *)
(***************************************************************************)
FailurePoints == {"none", "constructor", "setOptions"}

NextInit ==
  \/ \E i \in 1..MaxInitCalls : initFaceLandmarker(i)
  \/ \E i \in 1..MaxInitCalls, ok \in BOOLEAN : initFaceLandmarkerResumes(i, ok)
  \/ RenderLandmarker
  \/ \E failsAt \in FailurePoints : initFaceMesh(failsAt)

SpecInit == Init /\ [][NextInit]_vars

\* The calls of initFaceLandmarker that are between their guard and their
\* finally.
InitsInProgress(l) == {i \in 1..MaxInitCalls : l.initTasks[i] # "idle"}

\* C26: at most one initFaceLandmarker is in progress, and initializingRef
\* is set exactly while one is, so that after a failure as after a success
\* the next call goes ahead; a call made while it is set changes nothing;
\* isReady is true only with a detector stored.  In useFaceMesh, whose
\* initFaceMesh runs without an await, the flag is clear whenever a call can
\* be made and isReady is true only with a FaceMesh stored.
C26_SingleFlightInit ==
  [][/\ Cardinality(InitsInProgress(landmarker')) <= 1
     /\ landmarker'.initializingRef <=> InitsInProgress(landmarker') # {}
     /\ landmarker'.isReady => landmarker'.faceLandmarkerRef
     /\ (call'.op = "initFaceLandmarker" /\ landmarker.initializingRef)
          => landmarker' = landmarker /\ ~call'.arg.began
     /\ ~faceMesh'.initializingRef
     /\ faceMesh'.isReady => faceMesh'.faceMeshRef]_vars

\* An initialization failed, the next one is in progress, and a call made
\* meanwhile has returned at the guard.
C26_Witness ==
  /\ call.op = "initFaceLandmarker"
  /\ ~call.arg.began
  /\ landmarker.error
  /\ landmarker.initializingRef
  /\ Cardinality(InitsInProgress(landmarker)) = 1


(***************************************************************************)
(* FaceMeshView: the trackers it creates                                   *)
(***************************************************************************)
NextView ==
  \/ handleWebcamLoad
  \/ \E isAvailable \in BOOLEAN : checkMediaPipeAvailability(isAvailable)
  \/ RenderView
  \/ \E id \in 1..MaxTrackers, ok \in BOOLEAN : CameraStartSettles(id, ok)
  \/ handleRetry
  \/ \E render \in view.timers : RetryTimeout(render)
  \/ UnmountView

SpecView == Init /\ [][NextView]_vars

\* A tracker is live from its creation until its camera is stopped and its
\* FaceMesh closed.
Live(t) == t.mesh = "open" \/ t.camera \in {"starting", "started"}
LiveTrackers == {id \in 1..MaxTrackers : Live(view.trackers[id])}

\* C27: at most one tracker created by startFaceMesh is live at a time.
C27_SingleLiveTracker == Cardinality(LiveTrackers) <= 1


(***************************************************************************)
(* The adapter and the projector composed: each pose onResults hands on    *)
(* goes to updateFromHeadPose                                              *)
(***************************************************************************)
FullFaceResults ==
  {r \in DetectionResults :
     Len(r.multiFaceLandmarks) > 0 => r.multiFaceLandmarks[1].length = 468}

NextPipeline ==
  \/ \E results \in FullFaceResults : onResults(results, TRUE, TRUE, TRUE)
  \/ \E i \in 1..Len(returned) :
       returned[i] # NoPose /\ updateFromHeadPose(returned[i])
  \/ \E d \in DistancesCm \cup {Zero} : updateViewingDistance(d, FALSE)
  \/ getCalibration
  \/ updateCalibration

SpecPipeline == Init /\ [][NextPipeline]_vars

\* C28: for a pose handed on by the adapter and a projector calibration
\* with viewingDistanceCm > 0, updateFromHeadPose puts the eye at a z in
\* [viewingDistanceCm * 0.01 / 2, viewingDistanceCm * 0.01 / 0.5], above 0,
\* and writes the frustum of that eye.
C28_GuardUnreachable ==
  [][(call'.op = "updateFromHeadPose"
        /\ Lt(Zero, heap[calibrationRef].viewingDistanceCm))
       => LET base == Mul(heap[calibrationRef].viewingDistanceCm, worldScale)
              eye == camera'.position
          IN  /\ Le(Div(base, Int2Num(2)), eye.z)
              /\ Le(eye.z, Div(base, Half))
              /\ Lt(Zero, eye.z)
              /\ ~DegenerateEye(eye)
              /\ camera'.projectionMatrix.fromFrustum
              /\ camera'.projectionMatrix.right =
                   Mul(Sub(Div(screenWidthWorld, Int2Num(2)), eye.x),
                       Div(nearPlane, eye.z))]_vars

=============================================================================
